---- MODULE Spec2Model ----
(***************************************************************************)
(* Verification model of the path tracer's render core                     *)
(* (src/src/render/mod.rs, src/src/render/load_off.rs).                    *)
(*                                                                         *)
(* Specifications:                                                         *)
(*   Spec      one invocation of render(): the cancel watcher, the         *)
(*             progress task, the render thread, the rayon workers, the    *)
(*             caller's cancel token and the receiving end of the sink.    *)
(*   FairSpec  Spec with the fairness the thread scheduler gives to the    *)
(*             threads of render() (nothing is assumed of the receiver).   *)
(*   MockSpec  two render() invocations with MOCK_RANDOM = true.           *)
(*   SceneSpec intersect_scene / intersect_sphere on lattice inputs.       *)
(*   MeshSpec  Mesh::new and load_off bounding spheres.                    *)
(*   LiveSinkSpec  FairSpec with a receiver that keeps taking updates.     *)
(*   HitSpec   SceneObjectData::intersect on a mesh: bounding-sphere       *)
(*             pretest, then the scan of the triangles.                    *)
(*   RadianceSpec, RadianceFairSpec  the recursion of radiance().          *)
(*   CameraSpec  CameraData and the sensor setup of render().              *)
(*   FrameSpec  the RenderConfig render() takes by value.                  *)
(*   LoadSpec  load_off reading an OFF file.                               *)
(*   GammaSpec  to_int_with_gamma_correction.                              *)
(*   LockSpec  the pixel buffer mutex: workers, progress task and the      *)
(*             final copy of the render thread.                            *)
(*   BounceSpec  one call of radiance(): roulette and the Refract split.   *)
(*   PixelSpec  the pixel coordinates render_pixel gives to an index.      *)
(*   OffSpec, OffFairSpec  load_off reading lines through get_line from    *)
(*             a file of any length.                                       *)
(*                                                                         *)
(* f32 values are modelled in fixed point: FixedOne units make 1.0, and    *)
(* a value is a record [nan, v] so that NaN is a value of its own.         *)
(***************************************************************************)
EXTENDS Integers, Sequences, FiniteSets, TLC

\* ------------------------------------------------------------------------
\* Bounds of the model
\* ------------------------------------------------------------------------
MaxWidth == 2
MaxHeight == 2
MaxGrid == 2
MaxSamples == 1
NumWorkers == 2

\* 1.0 in fixed-point units
FixedOne == 8192

Workers == 1..NumWorkers

\* ------------------------------------------------------------------------
\* f32 arithmetic used by render_pixel and the progress task
\* ------------------------------------------------------------------------
F32(x) == [nan |-> FALSE, v |-> x]
NaN == [nan |-> TRUE, v |-> 0]

\* a / b on f32: 0.0 / 0.0 is NaN; the model never divides a non-zero
\* value by zero (the sum over zero samples is zero, the count over an
\* empty grid is zero)
F32Div(a, b) ==
    IF a.nan THEN NaN
    ELSE IF b = 0 THEN NaN
    ELSE F32(a.v \div b)

\* f32::clamp(0.0, 1.0): NaN stays NaN
Clamp01(a) ==
    IF a.nan THEN NaN
    ELSE IF a.v < 0 THEN F32(0)
    ELSE IF a.v > FixedOne THEN F32(FixedOne)
    ELSE a

F32Add(a, b) == IF a.nan \/ b.nan THEN NaN ELSE F32(a.v + b.v)

Vec3Default == <<F32(0), F32(0), F32(0)>>
Vec3Add(a, b) == <<F32Add(a[1], b[1]), F32Add(a[2], b[2]), F32Add(a[3], b[3])>>
Vec3DivScalar(a, n) == <<F32Div(a[1], n), F32Div(a[2], n), F32Div(a[3], n)>>

\* The values one radiance(ray, 0, objects) call can return for a scene with
\* finite non-negative emission: black, and a bright sample above 1.0 in one
\* channel
RadianceValues ==
    { Vec3Default, <<F32(0), F32(FixedOne \div 2), F32(3 * FixedOne)>> }

RECURSIVE SumSamples(_, _)
SumSamples(samples, s) ==
    IF s = 0 THEN Vec3Default
    ELSE Vec3Add(SumSamples(samples, s - 1), samples[s])

\* render_pixel: accumulate samples_per_pixel radiance samples, divide by the
\* sample count, clamp each channel
render_pixel(spp, samples) ==
    LET radiance_v == Vec3DivScalar(SumSamples(samples, spp), spp)
    IN  <<Clamp01(radiance_v[1]), Clamp01(radiance_v[2]), Clamp01(radiance_v[3])>>

\* ------------------------------------------------------------------------
\* State of one render() invocation
\* ------------------------------------------------------------------------
VARIABLES
    res,                    \* render_config.resolution: [width, height]
    samples_per_pixel,      \* render_config.samples_per_pixel
    pixels,                 \* the shared buffer behind the mutex
    pixels_lock,            \* holder of the pixels mutex, or "free"
    stop_render,            \* AtomicBool stop_render
    cancel_render,          \* AtomicBool cancel_render, owned by the caller
    processed_pixel_count,  \* AtomicUsize processed_pixel_count
    indices,                \* pixel indices the parallel iterator has not handed out
    wpc, widx, wval,        \* rayon workers: position, pixel index, pixel value
    cpc,                    \* cancel watcher position
    ppc, p_count, p_image,  \* progress task: position, loaded count, snapshot
                            \* (both kept as the last update's after the send)
    rpc, final_image,       \* render thread: position, image it returns
    mpc,                    \* thread::scope body: join, scope exit, return
    sink,                   \* the sink's channel: "ready" (room for an update),
                            \* "full" (no room), "closed" (receiver dropped)
    written,                \* (history) indices stored into the buffer
    render_calls,           \* (history) render_pixel calls per index
    write_calls             \* (history) buffer stores per index

renderVars == <<res, samples_per_pixel, pixels, pixels_lock, stop_render,
                cancel_render, processed_pixel_count, indices, wpc, widx, wval,
                cpc, ppc, p_count, p_image, rpc, final_image, mpc, sink, written, render_calls, write_calls>>

\* State of the MOCK_RANDOM runs (MockSpec)
VARIABLES
    mock_index,             \* static MOCK_RANDOMS_INDEX
    mk_config,              \* the RenderConfig both invocations are given
    mk_same_process,        \* the second invocation runs in the same process
    mk_invocation,          \* invocation under way: 1, 2, or 3 when both are over
    mk_next,                \* next pixel index of the sequential for_each
    mk_images               \* pixel buffers of the two invocations

mockVars == <<mock_index, mk_config, mk_same_process, mk_invocation, mk_next,
              mk_images>>

\* State of an intersect_scene call (SceneSpec)
VARIABLES
    sc_ray,                 \* the ray
    sc_objects,             \* scene_objects
    sc_i,                   \* loop variable i of the reversed range, -1 after the loop
    sc_min,                 \* min_intersect
    sc_hits                 \* (history) what intersect returned for each object visited

sceneVars == <<sc_ray, sc_objects, sc_i, sc_min, sc_hits>>

\* State of a mesh construction (MeshSpec)
VARIABLES
    ms_vertices,            \* the vertices given (three per triangle)
    ms_scale,               \* load_off's scale
    ms_via,                 \* "new" for Mesh::new, "load_off" for load_off
    ms_mesh                 \* the mesh built, once built

meshVars == <<ms_vertices, ms_scale, ms_via, ms_mesh>>

\* State of a SceneObjectData::intersect call on a mesh object (HitSpec)
VARIABLES
    mh_object,              \* the mesh object: [position, mesh]
    mh_ray,                 \* the ray
    mh_pc,                  \* "pretest", "scan", "returned"
    mh_k,                   \* triangles the loop has gone through
    mh_closest,             \* closest_hit, the result once returned
    mh_tested               \* (history) triangles tested against the ray

hitVars == <<mh_object, mh_ray, mh_pc, mh_k, mh_closest, mh_tested>>

HitIdle ==
    /\ mh_object = <<>>
    /\ mh_ray = <<>>
    /\ mh_pc = "none"
    /\ mh_k = 0
    /\ mh_closest = <<>>
    /\ mh_tested = 0

\* State of one radiance(ray, 0, objects) evaluation (RadianceSpec)
VARIABLES
    rd_stack,               \* depth arguments of the radiance calls still to run,
                            \* the next one last
    rd_calls,               \* (history) radiance calls run so far
    rd_max,                 \* (history) largest depth argument of a call run so far
    rd_reflect_type         \* (history) reflect_type of the object the call run
                            \* last has hit, "none" after a miss

radianceVars == <<rd_stack, rd_calls, rd_max, rd_reflect_type>>

RadianceIdle ==
    /\ rd_stack = <<>>
    /\ rd_calls = 0
    /\ rd_max = 0
    /\ rd_reflect_type = "none"

\* State of a camera and of the sensor setup of a render (CameraSpec)
VARIABLES
    camera,                 \* CameraData: position, direction, updating_direction
    cam_pc,                 \* "editing", or "setup" once render has set up the sensor
    cam_lens_center,        \* lens_center of the render
    cam_orthogonals         \* orthogonals of the render

cameraVars == <<camera, cam_pc, cam_lens_center, cam_orthogonals>>

CameraIdle ==
    /\ camera = <<>>
    /\ cam_pc = "none"
    /\ cam_lens_center = <<>>
    /\ cam_orthogonals = <<>>

\* State of a caller and of the render it has started (FrameSpec)
VARIABLES
    fr_caller_scene,        \* the SceneData the caller keeps and edits
    fr_config,              \* the RenderConfig render owns, once called
    fr_pc,                  \* "idle", "rendering", "returned"
    fr_next,                \* pixels rendered so far
    fr_at_call,             \* (history) the scene of the config when render was called
    fr_read                 \* (history) per pixel, the scene its rays were traced in

frameVars == <<fr_caller_scene, fr_config, fr_pc, fr_next, fr_at_call, fr_read>>

FrameIdle ==
    /\ fr_caller_scene = <<>>
    /\ fr_config = <<>>
    /\ fr_pc = "none"
    /\ fr_next = 0
    /\ fr_at_call = <<>>
    /\ fr_read = <<>>

\* State of a load_off call (LoadSpec)
VARIABLES
    lo_file,                \* the arguments: whether the file at path exists, its
                            \* lines, and scale
    lo_pc,                  \* "open", "header", "counts", "vertices", "faces", "done"
    lo_vertices,            \* vertices read so far
    lo_triangles,           \* triangles read so far
    lo_result               \* "pending"; then "Ok", "Err", or "panic" (unwrap on an Err)

loadVars == <<lo_file, lo_pc, lo_vertices, lo_triangles, lo_result>>

LoadIdle ==
    /\ lo_file = <<>>
    /\ lo_pc = "none"
    /\ lo_vertices = <<>>
    /\ lo_triangles = <<>>
    /\ lo_result = "none"

\* State of two to_int_with_gamma_correction calls (GammaSpec)
VARIABLES
    gm_x,                   \* the two arguments
    gm_out                  \* the two results, [some |-> FALSE] before the call

gammaVars == <<gm_x, gm_out>>

GammaIdle ==
    /\ gm_x = <<>>
    /\ gm_out = <<>>

\* State of the pixels mutex and of the buffer it guards (LockSpec), one
\* record: holder, buf, wpc, ppc, p_slot, p_clone, snapshot, rpc, final
VARIABLES
    lk

lockVars == <<lk>>

LockIdle == lk = <<>>

\* One radiance call, its arguments and what it did (BounceSpec): a record
\* [depth, hit, color, reflect_type, into, ddn, draws, out]
VARIABLES
    bounce

bounceVars == <<bounce>>

BounceIdle == bounce = <<>>

\* render_pixel called for the indices of one grid, in order (PixelSpec): a
\* record [width, height, next, coords]
VARIABLES
    pix

pixelVars == <<pix>>

PixelIdle == pix = <<>>

\* load_off reading the lines of a file through get_line (OffSpec): a record
\* [lines, pos, pc, line, vertex_count, vertices_left, faces_left, result,
\*  eof_reads]
VARIABLES
    off

offVars == <<off>>

OffIdle == off = <<>>

vars == <<renderVars, mockVars, sceneVars, meshVars, hitVars, radianceVars,
          cameraVars, frameVars, loadVars, gammaVars, lockVars, bounceVars,
          pixelVars, offVars>>

\* what each specification leaves alone
notRender == <<mockVars, sceneVars, meshVars, hitVars, radianceVars,
               cameraVars, frameVars, loadVars, gammaVars, lockVars,
               bounceVars, pixelVars, offVars>>
notMock == <<renderVars, sceneVars, meshVars, hitVars, radianceVars,
             cameraVars, frameVars, loadVars, gammaVars, lockVars,
             bounceVars, pixelVars, offVars>>
notScene == <<renderVars, mockVars, meshVars, hitVars, radianceVars,
              cameraVars, frameVars, loadVars, gammaVars, lockVars,
              bounceVars, pixelVars, offVars>>
notMesh == <<renderVars, mockVars, sceneVars, hitVars, radianceVars,
             cameraVars, frameVars, loadVars, gammaVars, lockVars,
             bounceVars, pixelVars, offVars>>
notHit == <<renderVars, mockVars, sceneVars, meshVars, radianceVars,
            cameraVars, frameVars, loadVars, gammaVars, lockVars, bounceVars,
            pixelVars, offVars>>
notRadiance == <<renderVars, mockVars, sceneVars, meshVars, hitVars,
                 cameraVars, frameVars, loadVars, gammaVars, lockVars,
                 bounceVars, pixelVars, offVars>>
notCamera == <<renderVars, mockVars, sceneVars, meshVars, hitVars,
               radianceVars, frameVars, loadVars, gammaVars, lockVars,
               bounceVars, pixelVars, offVars>>
notFrame == <<renderVars, mockVars, sceneVars, meshVars, hitVars,
              radianceVars, cameraVars, loadVars, gammaVars, lockVars,
              bounceVars, pixelVars, offVars>>
notLoad == <<renderVars, mockVars, sceneVars, meshVars, hitVars,
             radianceVars, cameraVars, frameVars, gammaVars, lockVars,
             bounceVars, pixelVars, offVars>>
notGamma == <<renderVars, mockVars, sceneVars, meshVars, hitVars,
              radianceVars, cameraVars, frameVars, loadVars, lockVars,
              bounceVars, pixelVars, offVars>>
notLock == <<renderVars, mockVars, sceneVars, meshVars, hitVars,
             radianceVars, cameraVars, frameVars, loadVars, gammaVars,
             bounceVars, pixelVars, offVars>>
notBounce == <<renderVars, mockVars, sceneVars, meshVars, hitVars,
               radianceVars, cameraVars, frameVars, loadVars, gammaVars,
               lockVars, pixelVars, offVars>>
notPixel == <<renderVars, mockVars, sceneVars, meshVars, hitVars,
              radianceVars, cameraVars, frameVars, loadVars, gammaVars,
              lockVars, bounceVars, offVars>>
notOff == <<renderVars, mockVars, sceneVars, meshVars, hitVars, radianceVars,
            cameraVars, frameVars, loadVars, gammaVars, lockVars, bounceVars,
            pixelVars>>

\* the parts of the state a specification does not use stay at these values
MockIdle ==
    /\ mock_index = 0
    /\ mk_config = [width |-> 0, height |-> 0, samples_per_pixel |-> 0,
                    scene |-> "none"]
    /\ mk_same_process = FALSE
    /\ mk_invocation = 0
    /\ mk_next = 0
    /\ mk_images = <<>>

SceneIdle ==
    /\ sc_ray = <<>>
    /\ sc_objects = <<>>
    /\ sc_i = 0
    /\ sc_min = <<>>
    /\ sc_hits = <<>>

MeshIdle ==
    /\ ms_vertices = <<>>
    /\ ms_scale = 0
    /\ ms_via = "none"
    /\ ms_mesh = <<>>

RenderIdle ==
    /\ res = [width |-> 0, height |-> 0]
    /\ samples_per_pixel = 0
    /\ pixels = <<>>
    /\ pixels_lock = [kind |-> "free", id |-> 0]
    /\ stop_render = FALSE
    /\ cancel_render = FALSE
    /\ processed_pixel_count = 0
    /\ indices = {}
    /\ wpc = <<>>
    /\ widx = <<>>
    /\ wval = <<>>
    /\ cpc = "none"
    /\ ppc = "none"
    /\ p_count = 0
    /\ p_image = <<>>
    /\ rpc = "none"
    /\ final_image = <<>>
    /\ mpc = "none"
    /\ sink = "none"
    /\ written = {}
    /\ render_calls = <<>>
    /\ write_calls = <<>>

grid_size == res.width * res.height
PixelIndices == 0..(grid_size - 1)

\* holders of the pixels mutex
LockFree == [kind |-> "free", id |-> 0]
ByProgress == [kind |-> "progress", id |-> 0]

\* f32::to_bits: the bit pattern of a channel as an unsigned integer. The
\* sign is the top bit and the magnitude fills the bits below it, so distinct
\* values have distinct patterns; NaN has a pattern above every finite one.
SignBit == 65536
NanBits == 2 * SignBit
to_bits(f) ==
    IF f.nan THEN NanBits
    ELSE IF f.v < 0 THEN SignBit + (0 - f.v)
    ELSE f.v

\* DefaultHasher: a fixed start state (the keys of DefaultHasher::new() are
\* constants), one absorbing step per u32 written, finish() reading the
\* state. The rounds of the real hasher are stood in for by one multiply
\* and add per word, kept inside HashModulus.
HashModulus == 32749
HashMultiplier == 31
DefaultHasherNew == 7
HashWrite(h, bits) == (h * HashMultiplier + (bits % HashModulus) + 1) % HashModulus
HashFinish(h) == h

\* v.x.to_bits().hash(..); v.y.to_bits().hash(..); v.z.to_bits().hash(..)
HashVec3(h, v) ==
    HashWrite(HashWrite(HashWrite(h, to_bits(v[1])), to_bits(v[2])),
              to_bits(v[3]))

\* for v in vectors { .. }: the vector is walked from index 0 upwards, px
\* being a function on 0..(n - 1)
RECURSIVE HashFrom(_, _, _)
HashFrom(h, px, i) ==
    IF i \notin DOMAIN px THEN h
    ELSE HashFrom(HashVec3(h, px[i]), px, i + 1)

hash_vec_of_vectors(px) == HashFinish(HashFrom(DefaultHasherNew, px, 0))

NoImage == [pixels |-> <<>>, resolution |-> [width |-> 0, height |-> 0],
            written |-> {}, present |-> FALSE, hash |-> 0]

\* an Image built as a struct literal that leaves the hash of an empty
\* vector in the hash field
ImageWithoutHash(px, r, wr) ==
    [pixels |-> px, resolution |-> r, written |-> wr, present |-> TRUE,
     hash |-> HashFinish(DefaultHasherNew)]

\* Image::new(pixels, resolution); "written" is history carried along with
\* the copy of the buffer
Image(px, r, wr) ==
    [pixels |-> px, resolution |-> r, written |-> wr, present |-> TRUE,
     hash |-> hash_vec_of_vectors(px)]

Init ==
    /\ res \in { r \in [width : 0..MaxWidth, height : 0..MaxHeight] :
                   r.width * r.height <= MaxGrid }
    /\ samples_per_pixel \in 0..MaxSamples
    /\ pixels = [i \in PixelIndices |-> Vec3Default]
    /\ pixels_lock = LockFree
    /\ stop_render = FALSE
    /\ cancel_render \in BOOLEAN
    /\ processed_pixel_count = 0
    /\ indices = PixelIndices
    /\ wpc = [w \in Workers |-> "next"]
    /\ widx = [w \in Workers |-> 0]
    /\ wval = [w \in Workers |-> Vec3Default]
    /\ cpc = "poll"
    /\ ppc = "load_stop"
    /\ p_count = 0
    /\ p_image = NoImage
    /\ rpc = "for_each"
    /\ final_image = NoImage
    /\ mpc = "join"
    /\ sink = "ready"
    /\ written = {}
    /\ render_calls = [i \in PixelIndices |-> 0]
    /\ write_calls = [i \in PixelIndices |-> 0]
    /\ MockIdle
    /\ SceneIdle
    /\ MeshIdle
    /\ HitIdle
    /\ RadianceIdle
    /\ CameraIdle
    /\ FrameIdle
    /\ LoadIdle
    /\ GammaIdle
    /\ LockIdle
    /\ BounceIdle
    /\ PixelIdle
    /\ OffIdle

\* ------------------------------------------------------------------------
\* The caller and the receiving end of the sink
\* ------------------------------------------------------------------------
\* the caller signals cancellation (cancel_render.store(true))
CallerCancel ==
    /\ ~cancel_render
    /\ mpc # "returned"
    /\ cancel_render' = TRUE
    /\ UNCHANGED <<res, samples_per_pixel, pixels, pixels_lock, stop_render,
                   processed_pixel_count, indices, wpc, widx, wval, cpc, ppc,
                   p_count, p_image, rpc, final_image, mpc, sink, written,
                   render_calls, write_calls, notRender>>

\* the receiver takes buffered updates out of the channel, which makes room
ReceiverTake ==
    /\ sink = "full"
    /\ sink' = "ready"
    /\ UNCHANGED <<res, samples_per_pixel, pixels, pixels_lock, stop_render,
                   cancel_render, processed_pixel_count, indices, wpc, widx,
                   wval, cpc, ppc, p_count, p_image, rpc, final_image, mpc,
                   written, render_calls, write_calls, notRender>>

\* the receiver is dropped: every later send returns Err at once
ReceiverDrop ==
    /\ sink # "closed"
    /\ sink' = "closed"
    /\ UNCHANGED <<res, samples_per_pixel, pixels, pixels_lock, stop_render,
                   cancel_render, processed_pixel_count, indices, wpc, widx,
                   wval, cpc, ppc, p_count, p_image, rpc, final_image, mpc,
                   written, render_calls, write_calls, notRender>>

\* ------------------------------------------------------------------------
\* Cancel watcher: loop { if cancel { stop = true }; if stop { break }; sleep }
\* ------------------------------------------------------------------------
WatcherPoll ==
    /\ cpc = "poll"
    /\ stop_render' = (stop_render \/ cancel_render)
    /\ cpc' = IF stop_render \/ cancel_render THEN "done" ELSE "poll"
    /\ UNCHANGED <<res, samples_per_pixel, pixels, pixels_lock, cancel_render,
                   processed_pixel_count, indices, wpc, widx, wval, ppc, p_count,
                   p_image, rpc, final_image, mpc, sink, written, render_calls,
                   write_calls, notRender>>

\* ------------------------------------------------------------------------
\* Progress task: loop { if stop { break }; load count; send(update); sleep }
\* ------------------------------------------------------------------------
ProgressLoadStop ==
    /\ ppc = "load_stop"
    /\ ppc' = IF stop_render THEN "done" ELSE "load_count"
    /\ UNCHANGED <<res, samples_per_pixel, pixels, pixels_lock, stop_render,
                   cancel_render, processed_pixel_count, indices, wpc, widx,
                   wval, cpc, p_count, p_image, rpc, final_image, mpc, sink,
                   written, render_calls, write_calls, notRender>>

ProgressLoadCount ==
    /\ ppc = "load_count"
    /\ p_count' = processed_pixel_count
    /\ ppc' = "lock"
    /\ UNCHANGED <<res, samples_per_pixel, pixels, pixels_lock, stop_render,
                   cancel_render, processed_pixel_count, indices, wpc, widx,
                   wval, cpc, p_image, rpc, final_image, mpc, sink, written,
                   render_calls, write_calls, notRender>>

\* Image::new(get_pixels.lock().unwrap().clone(), res): the MutexGuard is a
\* temporary of the `let _ = block_on(send(..));` statement, so the lock
\* taken here is held until that statement ends
ProgressSnapshot ==
    /\ ppc = "lock"
    /\ pixels_lock = LockFree
    /\ pixels_lock' = ByProgress
    /\ p_image' = Image(pixels, res, written)
    /\ ppc' = "send"
    /\ UNCHANGED <<res, samples_per_pixel, pixels, stop_render, cancel_render,
                   processed_pixel_count, indices, wpc, widx, wval, cpc, p_count,
                   rpc, final_image, mpc, sink, written, render_calls,
                   write_calls, notRender>>

\* (mutant) the fraction of the pixels still to do
RemainingPercentage(count, grid) == F32Div(F32((grid - count) * FixedOne), grid)

\* processed_percentage = count as f32 / grid_size as f32
processed_percentage(count, grid) == F32Div(F32(count * FixedOne), grid)

RenderUpdate(count, grid, image) ==
    [progress |-> processed_percentage(count, grid), image |-> image]

\* block_on(send(update)): completes when the channel has room, or with Err
\* when the receiver is gone; the result is discarded and the guard dropped.
\* The update sent may or may not fill the channel (its capacity is the
\* caller's choice).
ProgressSend ==
    /\ ppc = "send"
    /\ sink # "full"
    /\ IF sink = "closed" THEN UNCHANGED sink ELSE sink' \in {"ready", "full"}
    /\ pixels_lock' = LockFree
    /\ ppc' = "load_stop"
    /\ UNCHANGED <<res, samples_per_pixel, pixels, stop_render, cancel_render,
                   processed_pixel_count, indices, wpc, widx, wval, cpc,
                   p_count, p_image, rpc, final_image, mpc, written,
                   render_calls, write_calls, notRender>>

\* ------------------------------------------------------------------------
\* Rayon workers running render_pixel_to_vec over the index list
\* ------------------------------------------------------------------------
\* (mutant) the item stays in the list and is handed out again
TakeIndexKeepsItem(rest, i) == rest

\* the parallel iterator hands every item of the list to one closure call
TakeIndex(rest, i) == rest \ {i}

\* (mutant) the value is stored into the first slot of the pixel's row pair
StoredBufferWrongSlot(buf, i, v) == [buf EXCEPT ![i - (i % 2)] = v]

\* pixels[pixel_index] = pixel_value
StoredBuffer(buf, i, v) == [buf EXCEPT ![i] = v]

\* next item; the closure returns at once when it reads stop_render as set
WorkerNext(w) ==
    /\ wpc[w] = "next"
    /\ IF indices = {}
       THEN /\ wpc' = [wpc EXCEPT ![w] = "done"]
            /\ UNCHANGED <<indices, widx>>
       ELSE \E i \in indices :
            /\ indices' = TakeIndex(indices, i)
            /\ IF stop_render
               THEN UNCHANGED <<wpc, widx>>
               ELSE /\ wpc' = [wpc EXCEPT ![w] = "render_pixel"]
                    /\ widx' = [widx EXCEPT ![w] = i]
    /\ UNCHANGED <<res, samples_per_pixel, pixels, pixels_lock, stop_render,
                   cancel_render, processed_pixel_count, wval, cpc, ppc, p_count,
                   p_image, rpc, final_image, mpc, sink, written, render_calls,
                   write_calls, notRender>>

WorkerRenderPixel(w) ==
    /\ wpc[w] = "render_pixel"
    /\ \E samples \in [1..samples_per_pixel -> RadianceValues] :
          wval' = [wval EXCEPT ![w] = render_pixel(samples_per_pixel, samples)]
    /\ processed_pixel_count' = processed_pixel_count + 1
    /\ render_calls' = [render_calls EXCEPT ![widx[w]] = @ + 1]
    /\ wpc' = [wpc EXCEPT ![w] = "store"]
    /\ UNCHANGED <<res, samples_per_pixel, pixels, pixels_lock, stop_render,
                   cancel_render, indices, widx, cpc, ppc, p_count, p_image, rpc,
                   final_image, mpc, sink, written, write_calls, notRender>>

\* let mut pixels = pixels.lock().unwrap(); pixels[pixel_index] = pixel_value;
\* the guard is dropped when the closure returns. The store is the only
\* thing done under the lock, so lock, store and unlock are one step.
WorkerStore(w) ==
    /\ wpc[w] = "store"
    /\ pixels_lock = LockFree
    /\ pixels' = StoredBuffer(pixels, widx[w], wval[w])
    /\ written' = written \cup {widx[w]}
    /\ write_calls' = [write_calls EXCEPT ![widx[w]] = @ + 1]
    /\ wpc' = [wpc EXCEPT ![w] = "next"]
    /\ widx' = [widx EXCEPT ![w] = 0]
    /\ wval' = [wval EXCEPT ![w] = Vec3Default]
    /\ UNCHANGED <<res, samples_per_pixel, pixels_lock, stop_render,
                   cancel_render, processed_pixel_count, indices, cpc, ppc,
                   p_count, p_image, rpc, final_image, mpc, sink, render_calls, notRender>>

\* ------------------------------------------------------------------------
\* Render thread and the body of thread::scope
\* ------------------------------------------------------------------------
\* for_each returns when every item has been handed out and every call ended
RenderForEachDone ==
    /\ rpc = "for_each"
    /\ \A w \in Workers : wpc[w] = "done"
    /\ rpc' = "store_stop"
    /\ UNCHANGED <<res, samples_per_pixel, pixels, pixels_lock, stop_render,
                   cancel_render, processed_pixel_count, indices, wpc, widx,
                   wval, cpc, ppc, p_count, p_image, final_image, mpc, sink,
                   written, render_calls, write_calls, notRender>>

RenderStoreStop ==
    /\ rpc = "store_stop"
    /\ stop_render' = TRUE
    /\ rpc' = "copy_pixels"
    /\ UNCHANGED <<res, samples_per_pixel, pixels, pixels_lock, cancel_render,
                   processed_pixel_count, indices, wpc, widx, wval, cpc, ppc,
                   p_count, p_image, final_image, mpc, sink, written,
                   render_calls, write_calls, notRender>>

\* let pixels = pixels.lock().unwrap().to_vec(); ... Image::new(pixels, res)
\* (the output file written in between is taken to succeed)
RenderCopyPixels ==
    /\ rpc = "copy_pixels"
    /\ pixels_lock = LockFree
    /\ final_image' = Image(pixels, res, written)
    /\ rpc' = "returned"
    /\ UNCHANGED <<res, samples_per_pixel, pixels, pixels_lock, stop_render,
                   cancel_render, processed_pixel_count, indices, wpc, widx,
                   wval, cpc, ppc, p_count, p_image, mpc, sink, written,
                   render_calls, write_calls, notRender>>

\* render_thread_handle.join()
ScopeJoin ==
    /\ mpc = "join"
    /\ rpc = "returned"
    /\ mpc' = "scope_exit"
    /\ UNCHANGED <<res, samples_per_pixel, pixels, pixels_lock, stop_render,
                   cancel_render, processed_pixel_count, indices, wpc, widx,
                   wval, cpc, ppc, p_count, p_image, rpc, final_image, sink,
                   written, render_calls, write_calls, notRender>>

\* thread::scope returns once every thread spawned in it has finished
ScopeExit ==
    /\ mpc = "scope_exit"
    /\ cpc = "done"
    /\ ppc = "done"
    /\ mpc' = "returned"
    /\ UNCHANGED <<res, samples_per_pixel, pixels, pixels_lock, stop_render,
                   cancel_render, processed_pixel_count, indices, wpc, widx,
                   wval, cpc, ppc, p_count, p_image, rpc, final_image, sink,
                   written, render_calls, write_calls, notRender>>

Progress == ProgressLoadStop \/ ProgressLoadCount \/ ProgressSnapshot \/ ProgressSend
Worker(w) == WorkerNext(w) \/ WorkerRenderPixel(w) \/ WorkerStore(w)
RenderThread == RenderForEachDone \/ RenderStoreStop \/ RenderCopyPixels
Scope == ScopeJoin \/ ScopeExit

Next ==
    \/ CallerCancel
    \/ ReceiverTake
    \/ ReceiverDrop
    \/ WatcherPoll
    \/ ProgressLoadStop
    \/ ProgressLoadCount
    \/ ProgressSnapshot
    \/ ProgressSend
    \/ \E w \in Workers : WorkerNext(w)
    \/ \E w \in Workers : WorkerRenderPixel(w)
    \/ \E w \in Workers : WorkerStore(w)
    \/ RenderForEachDone
    \/ RenderStoreStop
    \/ RenderCopyPixels
    \/ ScopeJoin
    \/ ScopeExit

Spec == Init /\ [][Next]_vars

\* The operating system schedules every runnable thread of render(); a
\* thread waiting for the mutex gets it when it is free often enough. No
\* assumption is made about the caller or about the receiver of the sink.
FairSpec ==
    /\ Spec
    /\ WF_vars(WatcherPoll)
    /\ WF_vars(ProgressLoadStop \/ ProgressLoadCount \/ ProgressSend)
    /\ SF_vars(ProgressSnapshot)
    /\ \A w \in Workers :
          /\ WF_vars(WorkerNext(w) \/ WorkerRenderPixel(w))
          /\ SF_vars(WorkerStore(w))
    /\ WF_vars(RenderForEachDone \/ RenderStoreStop)
    /\ SF_vars(RenderCopyPixels)
    /\ WF_vars(Scope)

\* A sink whose receiver keeps taking updates; used to tell what hangs only
\* because the sink stops accepting updates
LiveSinkSpec == FairSpec /\ WF_vars(ReceiverTake)

\* ------------------------------------------------------------------------
\* Properties of one render() invocation
\* ------------------------------------------------------------------------
InUnitRange(a) == ~a.nan /\ 0 <= a.v /\ a.v <= FixedOne

AllWorkersDone == \A w \in Workers : wpc[w] = "done"

RenderReturned == mpc = "returned"

\* C1: no pixel index is rendered or stored more than once, and when the
\* workers have finished and the stop flag is still unset, every index of
\* 0..width*height-1 has been rendered and stored exactly once.
PixelsClaimedOnce ==
    /\ \A i \in PixelIndices : render_calls[i] <= 1 /\ write_calls[i] <= 1
    /\ \A v, w \in Workers :
          (v # w /\ wpc[v] = "store" /\ wpc[w] = "store") => widx[v] # widx[w]
    /\ (AllWorkersDone /\ ~stop_render) =>
          \A i \in PixelIndices : render_calls[i] = 1 /\ write_calls[i] = 1

\* C1 witness: two pixels, both rendered and stored, the workers finished and
\* the stop flag never set
PixelsClaimedOnceWitness ==
    /\ grid_size = MaxGrid
    /\ AllWorkersDone
    /\ ~stop_render
    /\ \A i \in PixelIndices : write_calls[i] = 1

\* C2 (as claimed): once the cancel token is set, render returns
CancelledRenderReturns == cancel_render ~> RenderReturned

\* C3 (as claimed): if the cancel token is never set, render returns with
\* every slot computed, the counter at width*height and the image shaped
\* like the progress snapshots
UncancelledRenderReturns ==
    <>(\/ cancel_render
       \/ /\ RenderReturned
          /\ final_image.written = PixelIndices
          /\ processed_pixel_count = grid_size
          /\ DOMAIN final_image.pixels = PixelIndices
          /\ final_image.resolution = res
          /\ p_image.present =>
                /\ DOMAIN p_image.pixels = DOMAIN final_image.pixels
                /\ p_image.resolution = final_image.resolution)

ImageInUnitRange(img) ==
    img.present =>
        \A i \in DOMAIN img.pixels :
            /\ \A c \in 1..3 : InUnitRange(img.pixels[i][c])
            /\ i \notin img.written => img.pixels[i] = Vec3Default

\* C5 (as claimed): every channel of the buffer, of every snapshot and of the
\* final image is in [0,1] and not NaN; unwritten slots are zero
AllChannelsInUnitRange ==
    /\ ImageInUnitRange(Image(pixels, res, written))
    /\ ImageInUnitRange(p_image)
    /\ ImageInUnitRange(final_image)

KeepsWrittenSlots(old, new) ==
    (old.present /\ new.present) =>
        \A i \in old.written :
            i \in new.written /\ new.pixels[i] = old.pixels[i]

\* C6: a written slot of the buffer keeps its value in every step, and every
\* slot written in a snapshot has the same value in the next snapshot and in
\* the final image, whether or not the render is cancelled.
WrittenPixelsKept ==
    [][/\ KeepsWrittenSlots(Image(pixels, res, written),
                            Image(pixels', res', written'))
       /\ KeepsWrittenSlots(p_image, p_image')
       /\ KeepsWrittenSlots(p_image, final_image')
       /\ KeepsWrittenSlots(final_image, final_image')]_vars

\* C6 witness: a cancelled render has returned an image that holds a written
\* non-black pixel which an earlier snapshot held too
WrittenPixelsKeptWitness ==
    /\ RenderReturned
    /\ cancel_render
    /\ p_image.present
    /\ \E i \in p_image.written :
          /\ p_image.pixels[i] # Vec3Default
          /\ final_image.pixels[i] = p_image.pixels[i]
    /\ final_image.written # PixelIndices

\* C7 (as claimed): the update being sent carries a fraction in [0,1], and the
\* processed-pixel counter never exceeds width*height
ProgressFractionInRange ==
    /\ processed_pixel_count <= grid_size
    /\ ppc = "send" =>
          InUnitRange(RenderUpdate(p_count, grid_size, p_image).progress)

\* zero samples or an empty grid
InvalidConfig == samples_per_pixel = 0 \/ res.width = 0 \/ res.height = 0

\* C15: an invalid configuration is rejected before the render driver runs:
\* no worker renders a pixel (render_pixel divides by the sample count) and
\* the progress task builds no update (it divides by the grid size)
InvalidConfigRejected ==
    InvalidConfig =>
        /\ \A i \in PixelIndices : render_calls[i] = 0
        /\ \A w \in Workers : wpc[w] # "render_pixel"
        /\ ppc # "send"

\* C19: every Image that render emits, the snapshot of a progress update or
\* the final image, carries in its hash field hash_vec_of_vectors of its own
\* pixels, and two emitted images whose pixel vectors are equal channel by
\* channel and index by index carry equal hashes.
ImageHashOfOwnPixels ==
    /\ p_image.present => p_image.hash = hash_vec_of_vectors(p_image.pixels)
    /\ final_image.present =>
          final_image.hash = hash_vec_of_vectors(final_image.pixels)
    /\ (p_image.present /\ final_image.present
          /\ p_image.pixels = final_image.pixels) =>
          p_image.hash = final_image.hash

\* a snapshot and a final image of a finished render with the same rendered
\* pixels, and so the same hash, which is not the hash of an empty vector
ImageHashOfOwnPixelsWitness ==
    /\ p_image.present
    /\ final_image.present
    /\ p_image.pixels = final_image.pixels
    /\ \E i \in DOMAIN final_image.pixels : final_image.pixels[i] # Vec3Default
    /\ p_image.hash = final_image.hash
    /\ final_image.hash # HashFinish(DefaultHasherNew)

\* the worker that holds index i between its stop check and its store
Holds(w, i) == wpc[w] \in {"render_pixel", "store"} /\ widx[w] = i

\* index i was handed to a closure call that read the stop flag as set: it
\* has left the list, no worker holds it and it was never rendered
Skipped(i) ==
    /\ i \in PixelIndices
    /\ i \notin indices
    /\ render_calls[i] = 0
    /\ \A w \in Workers : ~Holds(w, i)

\* once set, the stop flag is never cleared
StopFlagOneWay == [][stop_render => stop_render']_vars

\* a closure call that reads the flag as set takes its index and leaves the
\* worker where it was; the index is never rendered and never written
StoppedWorkerDoesNothing ==
    [][\A i \in 0..MaxGrid :
          /\ (i \in indices /\ i \notin indices' /\ stop_render) =>
                /\ Skipped(i)'
                /\ UNCHANGED <<pixels, written, render_calls, write_calls,
                               processed_pixel_count, wval>>
          /\ Skipped(i) => (Skipped(i)' /\ write_calls'[i] = 0
                            /\ i \notin written')]_vars

\* a pixel whose stop check passed is rendered and then stored
StartedPixelWritten ==
    \A i \in 0..MaxGrid :
        (\E w \in Workers : Holds(w, i)) ~>
            (i \in written /\ render_calls[i] = 1)

\* C20 (as claimed): the stop flag is never cleared once set; a worker that
\* reads it as set renders and writes nothing for that index; a pixel whose
\* stop check passed before the flag was set is rendered to completion and
\* written.
StopFlagOneWayAndPixelsFinished ==
    /\ StopFlagOneWay
    /\ StoppedWorkerDoesNothing
    /\ StartedPixelWritten

\* C22 (as claimed): render returns whatever the progress sink does: a sink
\* that answers every send with an error (receiver dropped) or that stops
\* taking updates (channel full, never drained) does not keep render from
\* returning its final image.
RenderReturnsWhateverTheSink ==
    <>(RenderReturned /\ final_image.present)

\* the part of C22 about a sink that answers sends with errors
ClosedSinkRenderReturns == (sink = "closed") ~> RenderReturned

\* C26 (as claimed): in every progress update the processed-pixel count the
\* fraction is computed from is not larger than the number of slots already
\* written in the snapshot the update carries (looked at for the valid
\* configurations only, so that a violation owes nothing to C15).
CountWithinSnapshot ==
    (ppc = "send" /\ ~InvalidConfig) =>
        p_count <= Cardinality(p_image.written)

\* a < b on f32: false when either is NaN
F32Less(a, b) == ~a.nan /\ ~b.nan /\ a.v < b.v

\* C27: over the successive progress updates of one invocation the fraction
\* never decreases and the written slots of the snapshot only grow, keeping
\* their values; the final image contains every slot written in a snapshot.
UpdatesOnlyAdvance ==
    [][/\ (ppc = "load_count" /\ ppc' = "lock") =>
             ~F32Less(processed_percentage(p_count', grid_size),
                      processed_percentage(p_count, grid_size))
       /\ (p_image.present /\ p_image' # p_image) =>
             /\ p_image.written \subseteq p_image'.written
             /\ \A i \in p_image.written :
                   p_image'.pixels[i] = p_image.pixels[i]
       /\ (p_image'.present /\ final_image'.present) =>
             /\ p_image'.written \subseteq final_image'.written
             /\ \A i \in p_image'.written :
                   final_image'.pixels[i] = p_image'.pixels[i]]_vars

\* a second update is being built, with the count of the whole grid, after
\* an update whose snapshot had fewer slots written than that
UpdatesOnlyAdvanceWitness ==
    /\ ppc = "lock"
    /\ p_image.present
    /\ p_image.written # {}
    /\ p_count > Cardinality(p_image.written)
    /\ p_count = grid_size

\* ------------------------------------------------------------------------
\* MockSpec: render() with MOCK_RANDOM = true, invoked twice
\* ------------------------------------------------------------------------
\* MOCK_RANDOMS, in thousandths
MOCK_RANDOMS == <<759, 24, 210, 788, 568, 769, 169, 545, 636>>
MOCK_RANDOMS_LEN == Len(MOCK_RANDOMS)
MAX_DEPTH == 12
\* Russian roulette applies when new_depth is above this
RouletteDepth == 5

\* rand01 with MOCK_RANDOM: fetch_add(1) on the index, value at the old index
\* modulo the length
rand01(index) ==
    [value |-> MOCK_RANDOMS[(index % MOCK_RANDOMS_LEN) + 1], index |-> index + 1]

\* Scenes of the mock runs.  "empty" has no object.  In the two rooms the
\* camera is enclosed in one sphere, so intersect_scene finds that sphere
\* for every ray: grey colour 0.5 (max_reflection 0.5, 500 thousandths),
\* grey emission 1/128, diffuse or specular.
MockScenes == {"empty", "diffuse_room", "mirror_room"}
RoomColor == 500
ColorOne == 1000
RoomEmmission == FixedOne \div 128

\* radiance(ray, depth, objects) of one channel of a room, and the index
\* after the draws it made
RECURSIVE radiance(_, _, _)
radiance(scene, depth, index) ==
    IF scene = "empty" THEN [value |-> 0, index |-> index]
    ELSE
        LET new_depth == depth + 1
            roulette == new_depth > RouletteDepth
            draw == rand01(index)
            survives == draw.value < RoomColor /\ new_depth < MAX_DEPTH
            \* color * (1.0 / max_reflection) after a survived roulette
            color == IF roulette THEN (RoomColor * ColorOne) \div RoomColor
                     ELSE RoomColor
            i1 == IF roulette THEN draw.index ELSE index
        IN  IF roulette /\ ~survives
            THEN [value |-> RoomEmmission, index |-> i1]
            ELSE
                LET \* Diffuse draws r1 and r2, Specular draws nothing
                    i2 == IF scene = "diffuse_room"
                          THEN rand01(rand01(i1).index).index
                          ELSE i1
                    rec == radiance(scene, new_depth, i2)
                IN  [value |-> RoomEmmission + (color * rec.value) \div ColorOne,
                     index |-> rec.index]

\* the sample loop of render_pixel: per sample the two jitter draws r1, r2,
\* then radiance(ray, 0, objects)
RECURSIVE MockSamples(_, _, _)
MockSamples(scene, s, index) ==
    IF s = 0 THEN [samples |-> <<>>, index |-> index]
    ELSE
        LET before == MockSamples(scene, s - 1, index)
            jittered == rand01(rand01(before.index).index).index
            rad == radiance(scene, 0, jittered)
        IN  [samples |-> Append(before.samples,
                                <<F32(rad.value), F32(rad.value), F32(rad.value)>>),
             index |-> rad.index]

MockGrid == mk_config.width * mk_config.height

MockInit ==
    /\ mock_index = 0
    /\ mk_config \in
          { c \in [width : 0..MaxWidth, height : 0..MaxHeight,
                   samples_per_pixel : 0..MaxSamples, scene : MockScenes] :
              c.width * c.height <= MaxGrid }
    /\ mk_same_process = FALSE
    /\ mk_invocation = 1
    /\ mk_next = 0
    /\ mk_images = [n \in 1..2 |-> [i \in 1..MockGrid |-> Vec3Default]]
    /\ RenderIdle
    /\ SceneIdle
    /\ MeshIdle
    /\ HitIdle
    /\ RadianceIdle
    /\ CameraIdle
    /\ FrameIdle
    /\ LoadIdle
    /\ GammaIdle
    /\ LockIdle
    /\ BounceIdle
    /\ PixelIdle
    /\ OffIdle

\* one call of render_pixel_to_vec by the sequential for_each
MockRenderPixel ==
    /\ mk_invocation \in 1..2
    /\ mk_next < MockGrid
    /\ LET drawn == MockSamples(mk_config.scene, mk_config.samples_per_pixel,
                                mock_index)
           pixel_value == render_pixel(mk_config.samples_per_pixel, drawn.samples)
       IN  /\ mock_index' = drawn.index
           /\ mk_images' = [mk_images EXCEPT ![mk_invocation][mk_next + 1] =
                                                 pixel_value]
    /\ mk_next' = mk_next + 1
    /\ UNCHANGED <<mk_config, mk_same_process, mk_invocation>>
    /\ UNCHANGED notMock

\* the first invocation returns and render() is called again in the same
\* process: the static keeps its value
MockRenderAgain ==
    /\ mk_invocation = 1
    /\ mk_next = MockGrid
    /\ mk_invocation' = 2
    /\ mk_next' = 0
    /\ mk_same_process' = TRUE
    /\ UNCHANGED <<mock_index, mk_config, mk_images>>
    /\ UNCHANGED notMock

\* the first invocation returns and the second runs in a new process: the
\* static starts at 0 again
MockRenderInNewProcess ==
    /\ mk_invocation = 1
    /\ mk_next = MockGrid
    /\ mk_invocation' = 2
    /\ mk_next' = 0
    /\ mock_index' = 0
    /\ UNCHANGED <<mk_config, mk_same_process, mk_images>>
    /\ UNCHANGED notMock

\* the second invocation returns
MockRenderReturn ==
    /\ mk_invocation = 2
    /\ mk_next = MockGrid
    /\ mk_invocation' = 3
    /\ UNCHANGED <<mock_index, mk_config, mk_same_process, mk_next, mk_images>>
    /\ UNCHANGED notMock

MockNext ==
    \/ MockRenderPixel
    \/ MockRenderAgain
    \/ MockRenderInNewProcess
    \/ MockRenderReturn

MockSpec == MockInit /\ [][MockNext]_vars

\* C4: with MOCK_RANDOM, two render invocations with the same config return
\* the same image, in separate processes or one after the other in one
\* process
MockRendersIdentical ==
    mk_invocation = 3 => mk_images[1] = mk_images[2]

\* the part of C4 about separate processes
MockProcessesIdentical ==
    (mk_invocation = 3 /\ ~mk_same_process) => mk_images[1] = mk_images[2]

\* ------------------------------------------------------------------------
\* SceneSpec: intersect_scene over spheres
\* ------------------------------------------------------------------------
MaxObjects == 2
MaxRadius == 2

\* 1.0 of a coordinate, a length or a direction component, in lattice units.
\* eps = 1e-4 lies strictly between 0 and one unit, so for a lattice value x
\* the test x >= eps is x > 0.
GeoOne == 10
GeEps(x) == x > 0

\* division rounding towards zero
Trunc(a, b) == IF a >= 0 THEN a \div b ELSE -((-a) \div b)

ISqrt(n) == CHOOSE r \in 0..(n + 1) : r * r <= n /\ (r + 1) * (r + 1) > n

VSub(a, b) == <<a[1] - b[1], a[2] - b[2], a[3] - b[3]>>
VAdd(a, b) == <<a[1] + b[1], a[2] + b[2], a[3] + b[3]>>
Dot(a, b) == a[1] * b[1] + a[2] * b[2] + a[3] * b[3]
\* direction * t
VScale(d, t) == <<Trunc(d[1] * t, GeoOne), Trunc(d[2] * t, GeoOne),
                  Trunc(d[3] * t, GeoOne)>>

\* Vec3::normalize: the zero vector has no direction, every component NaN
normalize(a) ==
    LET len == ISqrt(Dot(a, a))
    IN  IF len = 0 THEN [nan |-> TRUE, v |-> <<0, 0, 0>>]
        ELSE [nan |-> FALSE,
              v |-> <<Trunc(a[1] * GeoOne, len), Trunc(a[2] * GeoOne, len),
                      Trunc(a[3] * GeoOne, len)>>]

NoHit == [some |-> FALSE, distance |-> 0, intersection |-> <<0, 0, 0>>,
          normal |-> [nan |-> FALSE, v |-> <<0, 0, 0>>]]
Hit(t, xmin, nmin) ==
    [some |-> TRUE, distance |-> t, intersection |-> xmin, normal |-> nmin]

NoRoot == [some |-> FALSE, t |-> 0]
NearRootOnly(b, det) ==
    IF GeEps(b - det) THEN [some |-> TRUE, t |-> b - det] ELSE NoRoot

FarRootFirst(b, det) ==
    IF GeEps(b + det) THEN [some |-> TRUE, t |-> b + det]
    ELSE IF GeEps(b - det) THEN [some |-> TRUE, t |-> b - det]
    ELSE NoRoot

\* the t of intersect_sphere: the near root if it is at least eps away, else
\* the far root if that is, else none
sphere_root(b, det) ==
    IF GeEps(b - det) THEN [some |-> TRUE, t |-> b - det]
    ELSE IF GeEps(b + det) THEN [some |-> TRUE, t |-> b + det]
    ELSE NoRoot

intersect_sphere(position, radius, ray) ==
    LET op == VSub(position, ray.origin)
        b == Trunc(Dot(op, ray.direction), GeoOne)
        det == b * b - Dot(op, op) + radius * radius
    IN  IF det < 0 THEN NoHit
        ELSE
            LET root == sphere_root(b, ISqrt(det))
                xmin == VAdd(ray.origin, VScale(ray.direction, root.t))
                nmin == normalize(VSub(xmin, position))
            IN  IF root.some THEN Hit(root.t, xmin, nmin) ELSE NoHit

\* SceneObjectData::intersect of a sphere object
intersect(object, ray) == intersect_sphere(object.position, object.radius, ray)

SceneOrigins == { <<0, 0, 0>>, <<0, GeoOne, 0>> }
\* directions of unit length: two along the z axis and (0.6, 0, -0.8)
SceneDirections == { <<0, 0, -GeoOne>>, <<0, 0, GeoOne>>, <<6, 0, -8>> }
SceneCenters ==
    { <<0, 0, 0>>, <<0, 0, -3 * GeoOne>>, <<0, 0, 3 * GeoOne>>,
      <<0, GeoOne, -3 * GeoOne>>, <<0, 0, -4 * GeoOne>> }
SceneSpheres ==
    [position : SceneCenters, radius : {k * GeoOne : k \in 0..MaxRadius}]

NoIntersect == [some |-> FALSE, object_id |-> 0, hit |-> NoHit]
SceneIntersectResult(i, hit) == [some |-> TRUE, object_id |-> i, hit |-> hit]

SceneInit ==
    /\ sc_ray \in [origin : SceneOrigins, direction : SceneDirections]
    /\ \E n \in 0..MaxObjects : sc_objects \in [1..n -> SceneSpheres]
    /\ sc_i = Len(sc_objects) - 1
    /\ sc_min = NoIntersect
    /\ sc_hits = <<>>
    /\ RenderIdle
    /\ MockIdle
    /\ MeshIdle
    /\ HitIdle
    /\ RadianceIdle
    /\ CameraIdle
    /\ FrameIdle
    /\ LoadIdle
    /\ GammaIdle
    /\ LockIdle
    /\ BounceIdle
    /\ PixelIdle
    /\ OffIdle

CloserOrEqual(new_hit, hit) == new_hit.distance <= hit.distance

\* new_hit.distance < hit.distance
Closer(new_hit, hit) == new_hit.distance < hit.distance

\* one iteration of the loop over (0..len).rev(); object i of the code is
\* sc_objects[i + 1]
IntersectSceneVisit ==
    /\ sc_i >= 0
    /\ LET new_hit == intersect(sc_objects[sc_i + 1], sc_ray)
       IN  /\ sc_min' =
                 IF ~new_hit.some THEN sc_min
                 ELSE IF ~sc_min.some THEN SceneIntersectResult(sc_i, new_hit)
                 ELSE IF Closer(new_hit, sc_min.hit)
                      THEN SceneIntersectResult(sc_i, new_hit)
                      ELSE sc_min
           /\ sc_hits' = [j \in DOMAIN sc_hits \cup {sc_i + 1} |->
                             IF j = sc_i + 1 THEN new_hit ELSE sc_hits[j]]
    /\ sc_i' = sc_i - 1
    /\ UNCHANGED <<sc_ray, sc_objects>>
    /\ UNCHANGED notScene

SceneNext == IntersectSceneVisit

SceneSpec == SceneInit /\ [][SceneNext]_vars

\* intersect_scene has returned sc_min
SceneReturned == sc_i = -1

\* indices (of the code) of the objects the ray intersects
Intersected ==
    { i \in 0..(Len(sc_objects) - 1) : intersect(sc_objects[i + 1], sc_ray).some }
DistanceOf(i) == intersect(sc_objects[i + 1], sc_ray).distance
Nearest == { i \in Intersected : \A j \in Intersected : DistanceOf(i) <= DistanceOf(j) }

\* C8: intersect_scene returns no hit iff no object is intersected;
\* otherwise it returns an object at the minimal hit distance, and of
\* several objects at that distance the one with the highest index
NearestHighestIndexReturned ==
    SceneReturned =>
        /\ sc_min.some <=> Intersected # {}
        /\ sc_min.some =>
              /\ sc_min.object_id \in Nearest
              /\ \A i \in Nearest : i <= sc_min.object_id
              /\ sc_min.hit = intersect(sc_objects[sc_min.object_id + 1], sc_ray)

\* a call has returned with two objects hit at the same minimal distance
NearestHighestIndexReturnedWitness ==
    /\ SceneReturned
    /\ Cardinality(Nearest) >= 2
    /\ sc_min.some
    /\ \A i \in Nearest : i <= sc_min.object_id

\* the objects visited whose centre is the ray's origin
VisitedAtOrigin ==
    { j \in DOMAIN sc_hits : sc_objects[j].position = sc_ray.origin }

\* C9 as stated: for a ray starting at the sphere's centre the hit is at
\* distance radius and the normal points against the ray direction
CenterRayNormalOpposite ==
    \A j \in VisitedAtOrigin :
        /\ sc_hits[j].some
        /\ sc_hits[j].distance = sc_objects[j].radius
        /\ ~sc_hits[j].normal.nan
        /\ Dot(sc_hits[j].normal.v, sc_ray.direction) < 0

\* C9 amended: for a ray starting at the centre of a sphere whose radius is
\* at least eps the hit is at distance radius and the normal is the ray
\* direction
CenterRayNormalAlong ==
    \A j \in VisitedAtOrigin :
        GeEps(sc_objects[j].radius) =>
            /\ sc_hits[j].some
            /\ sc_hits[j].distance = sc_objects[j].radius
            /\ ~sc_hits[j].normal.nan
            /\ sc_hits[j].normal.v = sc_ray.direction

\* a sphere of positive radius centred at the ray's origin was intersected
CenterRayNormalAlongWitness ==
    \E j \in VisitedAtOrigin :
        /\ GeEps(sc_objects[j].radius)
        /\ sc_hits[j].some
        /\ sc_ray.direction = <<6, 0, -8>>

\* discriminant and roots of the sphere of object j for the ray
DiscOf(j) ==
    LET op == VSub(sc_objects[j].position, sc_ray.origin)
        b == Trunc(Dot(op, sc_ray.direction), GeoOne)
    IN  b * b - Dot(op, op) + sc_objects[j].radius * sc_objects[j].radius
NearRootOf(j) ==
    Trunc(Dot(VSub(sc_objects[j].position, sc_ray.origin), sc_ray.direction), GeoOne)
        - ISqrt(DiscOf(j))
FarRootOf(j) ==
    Trunc(Dot(VSub(sc_objects[j].position, sc_ray.origin), sc_ray.direction), GeoOne)
        + ISqrt(DiscOf(j))

\* C12: intersect_sphere returns no hit when the discriminant is negative;
\* otherwise the near root t1 if t1 >= eps, else the far root t2 if
\* t2 >= eps, else no hit; a returned hit has distance >= eps and its point
\* is origin + distance * direction
SphereRootChosen ==
    \A j \in DOMAIN sc_hits :
        /\ DiscOf(j) < 0 => ~sc_hits[j].some
        /\ DiscOf(j) >= 0 =>
              /\ GeEps(NearRootOf(j)) =>
                    sc_hits[j].some /\ sc_hits[j].distance = NearRootOf(j)
              /\ (~GeEps(NearRootOf(j)) /\ GeEps(FarRootOf(j))) =>
                    sc_hits[j].some /\ sc_hits[j].distance = FarRootOf(j)
              /\ (~GeEps(NearRootOf(j)) /\ ~GeEps(FarRootOf(j))) =>
                    ~sc_hits[j].some
        /\ sc_hits[j].some =>
              /\ GeEps(sc_hits[j].distance)
              /\ sc_hits[j].intersection =
                    VAdd(sc_ray.origin, VScale(sc_ray.direction, sc_hits[j].distance))

\* one sphere was hit at its far root from an origin inside it, off its
\* centre, and another at its near root, both roots being different
SphereRootChosenWitness ==
    \E j, k \in DOMAIN sc_hits :
        /\ sc_hits[j].some /\ sc_hits[k].some
        /\ sc_objects[j].position # sc_ray.origin
        /\ ~GeEps(NearRootOf(j))
        /\ sc_hits[j].distance = FarRootOf(j)
        /\ GeEps(NearRootOf(k))
        /\ NearRootOf(k) < FarRootOf(k)

\* ------------------------------------------------------------------------
\* MeshSpec: the bounding sphere of Mesh::new and of load_off
\* ------------------------------------------------------------------------
\* Vertex coordinates are even lattice values, so that x * 0.5 is exact.
\* Lengths are kept as their squares: sqrt is monotone, so the maximum and
\* the comparisons of lengths are those of the squares.
MeshCoords == {-2, 2, 4}
MeshPoints == { <<x, y, z>> : x \in {-2, 2}, y \in MeshCoords, z \in MeshCoords }
MeshScales == {1, 2}

MinOf(S) == CHOOSE m \in S : \A x \in S : m <= x
MaxOf(S) == CHOOSE m \in S : \A x \in S : m >= x

\* min_vert and max_vert after the loop over the vertices
min_vert(verts) ==
    <<MinOf({verts[k][1] : k \in DOMAIN verts}),
      MinOf({verts[k][2] : k \in DOMAIN verts}),
      MinOf({verts[k][3] : k \in DOMAIN verts})>>
max_vert(verts) ==
    <<MaxOf({verts[k][1] : k \in DOMAIN verts}),
      MaxOf({verts[k][2] : k \in DOMAIN verts}),
      MaxOf({verts[k][3] : k \in DOMAIN verts})>>

\* min_vert.x + max_vert.x * 0.5, and so for y and z
bounding_sphere_pos(lo, hi) ==
    <<lo[1] + (hi[1] \div 2), lo[2] + (hi[2] \div 2), lo[3] + (hi[3] \div 2)>>

LengthSq(a) == Dot(a, a)

\* StandaloneSphere { position, radius }: the radius is the larger of the
\* distances of min_vert and max_vert to the position
bounding_sphere(verts) ==
    LET lo == min_vert(verts)
        hi == max_vert(verts)
        pos == bounding_sphere_pos(lo, hi)
    IN  [position |-> pos,
         radius_sq |-> MaxOf({LengthSq(VSub(lo, pos)), LengthSq(VSub(hi, pos))})]

Triangle(a, b, c) == [a |-> a, b |-> b, c |-> c]

\* Mesh::new(triangles)
MeshNew(triangles) ==
    LET verts == [k \in 1..(3 * Len(triangles)) |->
                     LET tri == triangles[((k - 1) \div 3) + 1]
                     IN  CASE (k - 1) % 3 = 0 -> tri.a
                           [] (k - 1) % 3 = 1 -> tri.b
                           [] OTHER -> tri.c]
    IN  [triangles |-> triangles, bounding_sphere |-> bounding_sphere(verts)]

\* load_off of a well-formed file: the vertex lines, times scale, and the
\* face lines "3 a b c"
load_off(file_vertices, faces, scale) ==
    LET vertices == [k \in DOMAIN file_vertices |->
                        <<file_vertices[k][1] * scale, file_vertices[k][2] * scale,
                          file_vertices[k][3] * scale>>]
    IN  [triangles |-> [f \in DOMAIN faces |->
                           Triangle(vertices[faces[f][1] + 1],
                                    vertices[faces[f][2] + 1],
                                    vertices[faces[f][3] + 1])],
         bounding_sphere |-> bounding_sphere(vertices)]

NoMesh == [triangles |-> <<>>,
           bounding_sphere |-> [position |-> <<0, 0, 0>>, radius_sq |-> 0]]

MeshInit ==
    /\ ms_vertices \in [1..3 -> MeshPoints]
    /\ ms_scale \in MeshScales
    /\ ms_via = "pending"
    /\ ms_mesh = NoMesh
    /\ RenderIdle
    /\ MockIdle
    /\ SceneIdle
    /\ HitIdle
    /\ RadianceIdle
    /\ CameraIdle
    /\ FrameIdle
    /\ LoadIdle
    /\ GammaIdle
    /\ LockIdle
    /\ BounceIdle
    /\ PixelIdle
    /\ OffIdle

\* the mesh of one triangle is built by Mesh::new
MeshNewCall ==
    /\ ms_via = "pending"
    /\ ms_via' = "new"
    /\ ms_mesh' = MeshNew(<<Triangle(ms_vertices[1], ms_vertices[2], ms_vertices[3])>>)
    /\ UNCHANGED <<ms_vertices, ms_scale>>
    /\ UNCHANGED notMesh

\* the mesh is loaded from an OFF file with these three vertices and the
\* face "3 0 1 2"
LoadOffCall ==
    /\ ms_via = "pending"
    /\ ms_via' = "load_off"
    /\ ms_mesh' = load_off(ms_vertices, << <<0, 1, 2>> >>, ms_scale)
    /\ UNCHANGED <<ms_vertices, ms_scale>>
    /\ UNCHANGED notMesh

MeshNext ==
    \/ MeshNewCall
    \/ LoadOffCall

MeshSpec == MeshInit /\ [][MeshNext]_vars

InsideOrOn(v, sphere) == LengthSq(VSub(v, sphere.position)) <= sphere.radius_sq

\* C10: every vertex of every triangle of a mesh built by Mesh::new or by
\* load_off lies inside or on the mesh's bounding sphere
VerticesInBoundingSphere ==
    \A t \in DOMAIN ms_mesh.triangles :
        /\ InsideOrOn(ms_mesh.triangles[t].a, ms_mesh.bounding_sphere)
        /\ InsideOrOn(ms_mesh.triangles[t].b, ms_mesh.bounding_sphere)
        /\ InsideOrOn(ms_mesh.triangles[t].c, ms_mesh.bounding_sphere)

\* ------------------------------------------------------------------------
\* HitSpec: SceneObjectData::intersect of a mesh object
\* ------------------------------------------------------------------------
\* Coordinates are those of MeshSpec (one unit is 1.0) and directions are
\* unit vectors along an axis, so every product below is exact.  A quotient
\* n / d is kept as the pair of n and d with d > 0.
Cross(a, b) ==
    <<a[2] * b[3] - a[3] * b[2], a[3] * b[1] - a[1] * b[3],
      a[1] * b[2] - a[2] * b[1]>>

Abs(x) == IF x < 0 THEN -x ELSE x
Sign(x) == IF x < 0 THEN -1 ELSE IF x > 0 THEN 1 ELSE 0

\* intersect_sphere(..).is_some() for a sphere given by the square of its
\* radius and a ray of unit direction: with root == sqrt(det), b - root
\* reaches eps when b > 0 and b * b > det, b + root reaches eps when
\* b > 0, or b = 0 and det > 0, or b < 0 and det > b * b
sphere_is_some(position, radius_sq, ray) ==
    LET op == VSub(position, ray.origin)
        b == Dot(op, ray.direction)
        det == b * b - Dot(op, op) + radius_sq
    IN  /\ det >= 0
        /\ \/ b > 0
           \/ b = 0 /\ det > 0
           \/ b < 0 /\ det > b * b

\* Triangle::transformed
transformed(tri, v) == Triangle(VAdd(tri.a, v), VAdd(tri.b, v), VAdd(tri.c, v))

NoTriangleHit == [some |-> FALSE, num |-> 0, den |-> 1, normal |-> <<0, 0, 0>>]

\* the body of the triangle loop up to "distance <= 0.0": the hit of the ray
\* on the triangle, distance num / den, and the vector the normal is the
\* normalisation of
triangle_hit(tri, ray) ==
    LET va_vb == VSub(tri.b, tri.a)
        va_vc == VSub(tri.c, tri.a)
        pvec == Cross(ray.direction, va_vc)
        determinant == Dot(va_vb, pvec)
        tvec == VSub(ray.origin, tri.a)
        qvec == Cross(tvec, va_vb)
        \* u, v and distance, each times determinant * determinant
        u == Dot(tvec, pvec) * determinant
        v == Dot(ray.direction, qvec) * determinant
        distance == Dot(va_vc, qvec) * determinant
        one == determinant * determinant
    IN  IF determinant = 0 THEN NoTriangleHit
        ELSE IF u < 0 \/ u > one THEN NoTriangleHit
        ELSE IF v < 0 \/ u + v > one THEN NoTriangleHit
        ELSE IF distance <= 0 THEN NoTriangleHit
        ELSE [some |-> TRUE,
              num |-> Dot(va_vc, qvec) * Sign(determinant),
              den |-> Abs(determinant),
              normal |-> Cross(va_vb, va_vc)]

\* distance < hit.distance
CloserHit(new_hit, hit) == new_hit.num * hit.den < hit.num * new_hit.den

\* closest_hit after one more triangle
closest_after(closest_hit, new_hit) ==
    IF ~new_hit.some THEN closest_hit
    ELSE IF ~closest_hit.some THEN new_hit
    ELSE IF CloserHit(new_hit, closest_hit) THEN new_hit
    ELSE closest_hit

HitPoints ==
    { <<x, y, z>> : x \in {-2, 2}, y \in {-2, 2}, z \in {2, 4} }
\* one or two triangles, the first with its vertex a at (-2, -2, 2)
HitMeshes ==
    LET first == { Triangle(<<-2, -2, 2>>, b, c) : b, c \in HitPoints }
        second == { Triangle(<<2, -2, 2>>, <<2, 2, 2>>, c) : c \in HitPoints }
    IN  { <<t>> : t \in first } \cup { <<t, u>> : t \in first, u \in second }
HitPositions == { <<0, 0, 0>>, <<0, 0, -2>> }
HitRays ==
    [origin : { <<0, 2, 2>>, <<0, -2, 3>>, <<4, 1, 2>> },
     direction : { <<-1, 0, 0>>, <<1, 0, 0>>, <<0, 0, 1>> }]

HitInit ==
    /\ mh_object \in [position : HitPositions,
                      mesh : { MeshNew(triangles) : triangles \in HitMeshes }]
    /\ mh_ray \in HitRays
    /\ mh_pc = "pretest"
    /\ mh_k = 0
    /\ mh_closest = NoTriangleHit
    /\ mh_tested = 0
    /\ RenderIdle
    /\ MockIdle
    /\ SceneIdle
    /\ MeshIdle
    /\ RadianceIdle
    /\ CameraIdle
    /\ FrameIdle
    /\ LoadIdle
    /\ GammaIdle
    /\ LockIdle
    /\ BounceIdle
    /\ PixelIdle
    /\ OffIdle

\* the bounding-sphere test: on a miss the call returns None
HitPretest ==
    /\ mh_pc = "pretest"
    /\ mh_pc' =
          IF sphere_is_some(VAdd(mh_object.mesh.bounding_sphere.position,
                                 mh_object.position),
                            mh_object.mesh.bounding_sphere.radius_sq, mh_ray)
          THEN "scan" ELSE "returned"
    /\ UNCHANGED <<mh_object, mh_ray, mh_k, mh_closest, mh_tested>>
    /\ UNCHANGED notHit

\* one iteration of the loop over mesh.triangles
HitScanTriangle ==
    /\ mh_pc = "scan"
    /\ mh_k < Len(mh_object.mesh.triangles)
    /\ LET tri == transformed(mh_object.mesh.triangles[mh_k + 1], mh_object.position)
       IN  mh_closest' = closest_after(mh_closest, triangle_hit(tri, mh_ray))
    /\ mh_k' = mh_k + 1
    /\ mh_tested' = mh_tested + 1
    /\ UNCHANGED <<mh_object, mh_ray, mh_pc>>
    /\ UNCHANGED notHit

\* the loop is over: closest_hit is returned
HitReturn ==
    /\ mh_pc = "scan"
    /\ mh_k = Len(mh_object.mesh.triangles)
    /\ mh_pc' = "returned"
    /\ UNCHANGED <<mh_object, mh_ray, mh_k, mh_closest, mh_tested>>
    /\ UNCHANGED notHit

HitNext ==
    \/ HitPretest
    \/ HitScanTriangle
    \/ HitReturn

HitSpec == HitInit /\ [][HitNext]_vars

\* the closest valid hit of a linear scan of the first k triangles,
\* translated by the object position
RECURSIVE LinearScan(_, _, _, _)
LinearScan(triangles, position, ray, k) ==
    IF k = 0 THEN NoTriangleHit
    ELSE closest_after(LinearScan(triangles, position, ray, k - 1),
                       triangle_hit(transformed(triangles[k], position), ray))

\* C11: the mesh intersection returns what the plain linear scan of all
\* translated triangles returns, and on a bounding-sphere miss no triangle
\* was tested
PretestKeepsScanResult ==
    mh_pc = "returned" =>
        /\ mh_closest = LinearScan(mh_object.mesh.triangles, mh_object.position,
                                   mh_ray, Len(mh_object.mesh.triangles))
        /\ mh_k = 0 => mh_tested = 0

\* ------------------------------------------------------------------------
\* RadianceSpec: the recursion of radiance, for any hits, materials and draws
\* ------------------------------------------------------------------------
\* The calls of one evaluation are run depth first; rd_stack holds the depth
\* arguments of the calls not yet run.  Whether a ray hits, the material hit
\* and the outcome of every rand01 comparison are free choices.
CapIncluded(new_depth) == new_depth <= MAX_DEPTH

\* the roulette lets the call go on only below MAX_DEPTH
BelowCap(new_depth) == new_depth < MAX_DEPTH

\* the call goes on past the roulette: no roulette up to RouletteDepth, and
\* above it a surviving draw and new_depth < MAX_DEPTH
GoesOn(new_depth) == new_depth <= RouletteDepth \/ BelowCap(new_depth)

ReflectTypes == {"Diffuse", "Specular", "Refract"}

RadianceTop == rd_stack[Len(rd_stack)]
RadiancePopped == SubSeq(rd_stack, 1, Len(rd_stack) - 1)

\* bookkeeping of the call that is run
RadianceRun ==
    /\ rd_calls' = rd_calls + 1
    /\ rd_max' = IF RadianceTop > rd_max THEN RadianceTop ELSE rd_max

RadianceInit ==
    /\ rd_stack = <<0>>
    /\ rd_calls = 0
    /\ rd_max = 0
    /\ rd_reflect_type = "none"
    /\ RenderIdle
    /\ MockIdle
    /\ SceneIdle
    /\ MeshIdle
    /\ HitIdle
    /\ CameraIdle
    /\ FrameIdle
    /\ LoadIdle
    /\ GammaIdle
    /\ LockIdle
    /\ BounceIdle
    /\ PixelIdle
    /\ OffIdle

\* intersect_scene finds nothing: Vec3::default()
RadianceMiss ==
    /\ rd_stack # <<>>
    /\ RadianceRun
    /\ rd_stack' = RadiancePopped
    /\ rd_reflect_type' = "none"
    /\ UNCHANGED notRadiance

\* the roulette ends the path: return emmission
RadianceRouletteStop ==
    /\ rd_stack # <<>>
    /\ RadianceTop + 1 > RouletteDepth
    /\ RadianceRun
    /\ rd_stack' = RadiancePopped
    /\ rd_reflect_type' \in ReflectTypes
    /\ UNCHANGED notRadiance

\* Diffuse: one recursive call with new_depth
RadianceDiffuse ==
    /\ rd_stack # <<>>
    /\ GoesOn(RadianceTop + 1)
    /\ RadianceRun
    /\ rd_stack' = Append(RadiancePopped, RadianceTop + 1)
    /\ rd_reflect_type' = "Diffuse"
    /\ UNCHANGED notRadiance

\* Specular: one recursive call with new_depth
RadianceSpecular ==
    /\ rd_stack # <<>>
    /\ GoesOn(RadianceTop + 1)
    /\ RadianceRun
    /\ rd_stack' = Append(RadiancePopped, RadianceTop + 1)
    /\ rd_reflect_type' = "Specular"
    /\ UNCHANGED notRadiance

\* Refract with total internal reflection (cos2t < 0), or with
\* new_depth > 2: one recursive call, reflected or refracted
RadianceRefractOne ==
    /\ rd_stack # <<>>
    /\ GoesOn(RadianceTop + 1)
    /\ RadianceRun
    /\ rd_stack' = Append(RadiancePopped, RadianceTop + 1)
    /\ rd_reflect_type' = "Refract"
    /\ UNCHANGED notRadiance

\* Refract with new_depth <= 2 and no total internal reflection: the
\* reflected and the refracted ray are both followed
RadianceRefractBoth ==
    /\ rd_stack # <<>>
    /\ RadianceTop + 1 <= 2
    /\ RadianceRun
    /\ rd_stack' = RadiancePopped \o <<RadianceTop + 1, RadianceTop + 1>>
    /\ rd_reflect_type' = "Refract"
    /\ UNCHANGED notRadiance

RadianceNext ==
    \/ RadianceMiss
    \/ RadianceRouletteStop
    \/ RadianceDiffuse
    \/ RadianceSpecular
    \/ RadianceRefractOne
    \/ RadianceRefractBoth

RadianceSpec == RadianceInit /\ [][RadianceNext]_vars

\* the thread evaluating radiance keeps running
RadianceFairSpec == RadianceSpec /\ WF_vars(RadianceNext)

\* the calls a step adds are made with the depth of the call run plus one
DepthGrowsByOne ==
    rd_stack # <<>> =>
        /\ Len(rd_stack') >= Len(rd_stack) - 1
        /\ SubSeq(rd_stack', 1, Len(rd_stack) - 1) = RadiancePopped
        /\ \A i \in Len(rd_stack)..Len(rd_stack') : rd_stack'[i] = RadianceTop + 1

\* C13: a radiance call started at depth 0 terminates whatever the draws,
\* materials and hits; recursive calls are made with depth + 1, and no call
\* is made with a depth of MAX_DEPTH or more
RadianceTerminates ==
    /\ <>(rd_stack = <<>>)
    /\ [][DepthGrowsByOne]_vars
    /\ [](\A i \in DOMAIN rd_stack : rd_stack[i] < MAX_DEPTH)

\* an evaluation is over in which a call ran at depth MAX_DEPTH - 1 and the
\* first two levels followed both rays
RadianceTerminatesWitness ==
    /\ rd_stack = <<>>
    /\ rd_max = MAX_DEPTH - 1
    /\ rd_calls > 2 * MAX_DEPTH

\* ------------------------------------------------------------------------
\* CameraSpec: CameraData and the sensor setup of render
\* ------------------------------------------------------------------------
\* Directions are in GeoOne units; positions, focal_length and sensor_width
\* are in thousandths (0.035 is 35).
NoDirection == [some |-> FALSE, v |-> <<0, 0, 0>>]
SomeDirection(v) == [some |-> TRUE, v |-> v]

\* CameraData::new
CameraDataNew(position, direction) ==
    [position |-> position,
     direction |-> normalize(direction).v,
     updating_direction |-> NoDirection,
     focal_length |-> 35,
     sensor_width |-> 36,
     aspect_ratio |-> [num |-> 3, den |-> 2]]

\* updating_direction.unwrap_or(direction)
get_current_direction(cam) ==
    IF cam.updating_direction.some THEN cam.updating_direction.v ELSE cam.direction

sensor_height(cam) ==
    (cam.sensor_width * cam.aspect_ratio.den) \div cam.aspect_ratio.num

lens_center(cam) ==
    VAdd(cam.position, VScale(get_current_direction(cam), cam.focal_length))

orthogonals(cam) ==
    LET direction == get_current_direction(cam)
        su == normalize(Cross(direction,
                              IF Abs(direction[2]) < 9 THEN <<0, 1, 0>>
                              ELSE <<0, 0, 1>>)).v
        sv == VScale(Cross(su, direction), 1)  \* su x direction, in GeoOne units
    IN  <<VScale(su, cam.sensor_width), VScale(sv, sensor_height(cam))>>

\* directions the callers give: along an axis, of length 1 or 2
CameraDirections ==
    { <<x, 0, 0>> : x \in {-GeoOne, 2 * GeoOne} }
        \cup { <<0, y, 0>> : y \in {GeoOne, -2 * GeoOne} }
        \cup { <<0, 0, z>> : z \in {-GeoOne, GeoOne} }
CameraPositions == { <<0, 0, 0>>, <<0, 1000, 2000>> }

CameraInit ==
    /\ \E position \in CameraPositions, direction \in CameraDirections :
          camera = CameraDataNew(position, direction)
    /\ cam_pc = "editing"
    /\ cam_lens_center = <<0, 0, 0>>
    /\ cam_orthogonals = << <<0, 0, 0>>, <<0, 0, 0>> >>
    /\ RenderIdle
    /\ MockIdle
    /\ SceneIdle
    /\ MeshIdle
    /\ HitIdle
    /\ RadianceIdle
    /\ FrameIdle
    /\ LoadIdle
    /\ GammaIdle
    /\ LockIdle
    /\ BounceIdle
    /\ PixelIdle
    /\ OffIdle

\* a set_direction that keeps the pending direction
CameraSetDirectionKeepsPending ==
    /\ cam_pc = "editing"
    /\ \E direction \in CameraDirections :
          camera' = [camera EXCEPT !.direction = normalize(direction).v]
    /\ UNCHANGED <<cam_pc, cam_lens_center, cam_orthogonals>>
    /\ UNCHANGED notCamera

\* CameraData::set_direction
CameraSetDirection ==
    /\ cam_pc = "editing"
    /\ \E direction \in CameraDirections :
          camera' = [camera EXCEPT !.direction = normalize(direction).v,
                                   !.updating_direction = NoDirection]
    /\ UNCHANGED <<cam_pc, cam_lens_center, cam_orthogonals>>
    /\ UNCHANGED notCamera

\* CameraData::set_updating_direction
CameraSetUpdatingDirection ==
    /\ cam_pc = "editing"
    /\ \E direction \in CameraDirections :
          camera' = [camera EXCEPT !.updating_direction =
                                       SomeDirection(normalize(direction).v)]
    /\ UNCHANGED <<cam_pc, cam_lens_center, cam_orthogonals>>
    /\ UNCHANGED notCamera

\* render is given a config with this camera and sets up the sensor
CameraRenderSetup ==
    /\ cam_pc = "editing"
    /\ cam_pc' = "setup"
    /\ cam_lens_center' = lens_center(camera)
    /\ cam_orthogonals' = orthogonals(camera)
    /\ UNCHANGED camera
    /\ UNCHANGED notCamera

CameraNext ==
    \/ CameraSetDirection
    \/ CameraSetUpdatingDirection
    \/ CameraRenderSetup

CameraSpec == CameraInit /\ [][CameraNext]_vars

\* the camera with its pending direction dropped
Committed(cam) == [cam EXCEPT !.updating_direction = NoDirection]

\* C14: the lens center and the sensor basis of a render are those of the
\* committed direction, whatever updating_direction holds
SetupFromCommittedDirection ==
    cam_pc = "setup" =>
        /\ cam_lens_center = lens_center(Committed(camera))
        /\ cam_orthogonals = orthogonals(Committed(camera))

\* the fields of a camera that no call on it writes
CameraFrame(cam) ==
    <<cam.position, cam.focal_length, cam.sensor_width, cam.aspect_ratio>>

\* C29: over any sequence of CameraData calls, set_updating_direction
\* changes only the pending direction and leaves direction() as it was;
\* set_direction replaces the committed direction and clears the pending
\* one; get_current_direction is the pending direction when one is set and
\* the committed direction otherwise; position, focal_length, sensor_width
\* and aspect_ratio are changed by none of the calls.
CameraCallsFrame ==
    [][/\ CameraFrame(camera') = CameraFrame(camera)
       /\ CameraSetUpdatingDirection =>
              /\ camera'.direction = camera.direction
              /\ camera'.updating_direction.some
              /\ Committed(camera') = Committed(camera)
              /\ get_current_direction(camera') = camera'.updating_direction.v
       /\ CameraSetDirection =>
              /\ ~camera'.updating_direction.some
              /\ \E direction \in CameraDirections :
                     camera'.direction = normalize(direction).v
              /\ get_current_direction(camera') = camera'.direction
       /\ CameraRenderSetup =>
              /\ camera' = camera
              /\ cam_lens_center' =
                     VAdd(camera.position,
                          VScale(IF camera.updating_direction.some
                                 THEN camera.updating_direction.v
                                 ELSE camera.direction,
                                 camera.focal_length))]_vars

\* a camera with a pending direction that is not the committed one
CameraCallsFrameWitness ==
    /\ cam_pc = "editing"
    /\ camera.updating_direction.some
    /\ camera.updating_direction.v # camera.direction

\* ------------------------------------------------------------------------
\* FrameSpec: the RenderConfig a render works on, and its caller
\* ------------------------------------------------------------------------
\* render takes its RenderConfig by value and moves it into the render
\* thread, which reads it through shared references; SceneData holds plain
\* values only (a Vec of objects, a CameraData).
FrameScenes ==
    [objects : { <<"sphere">>, <<"sphere", "mesh">>, <<>> },
     camera : { "towards -z", "towards +x" }]
FramePixels == 1..2
NoScene == [objects |-> <<>>, camera |-> "none"]

SceneShared(config_scene, edited) == edited

\* the scene of the config render owns, after the caller has changed its own
\* scene to edited
SceneAfterCallerEdit(config_scene, edited) == config_scene

FrameInit ==
    /\ fr_caller_scene \in FrameScenes
    /\ fr_config = [scene |-> NoScene]
    /\ fr_pc = "idle"
    /\ fr_next = 0
    /\ fr_at_call = NoScene
    /\ fr_read = [i \in FramePixels |-> NoScene]
    /\ RenderIdle
    /\ MockIdle
    /\ SceneIdle
    /\ MeshIdle
    /\ HitIdle
    /\ RadianceIdle
    /\ CameraIdle
    /\ LoadIdle
    /\ GammaIdle
    /\ LockIdle
    /\ BounceIdle
    /\ PixelIdle
    /\ OffIdle

\* the caller changes the objects or the camera of its scene
FrameCallerEdit ==
    /\ \E edited \in FrameScenes \ {fr_caller_scene} :
          /\ fr_caller_scene' = edited
          /\ fr_config' =
                IF fr_pc = "idle" THEN fr_config
                ELSE [scene |-> SceneAfterCallerEdit(fr_config.scene, edited)]
    /\ UNCHANGED <<fr_pc, fr_next, fr_at_call, fr_read>>
    /\ UNCHANGED notFrame

\* the caller calls render with a config holding a clone of its scene
FrameRenderCall ==
    /\ fr_pc = "idle"
    /\ fr_pc' = "rendering"
    /\ fr_config' = [scene |-> fr_caller_scene]
    /\ fr_at_call' = fr_caller_scene
    /\ UNCHANGED <<fr_caller_scene, fr_next, fr_read>>
    /\ UNCHANGED notFrame

\* a pixel is rendered: its rays are set up from scene.camera and traced in
\* scene.objects, the scene being &render_config.scene
FrameRenderPixel ==
    /\ fr_pc = "rendering"
    /\ fr_next < Cardinality(FramePixels)
    /\ fr_next' = fr_next + 1
    /\ fr_read' = [fr_read EXCEPT ![fr_next + 1] = fr_config.scene]
    /\ UNCHANGED <<fr_caller_scene, fr_config, fr_pc, fr_at_call>>
    /\ UNCHANGED notFrame

FrameRenderReturn ==
    /\ fr_pc = "rendering"
    /\ fr_next = Cardinality(FramePixels)
    /\ fr_pc' = "returned"
    /\ UNCHANGED <<fr_caller_scene, fr_config, fr_next, fr_at_call, fr_read>>
    /\ UNCHANGED notFrame

FrameNext ==
    \/ FrameCallerEdit
    \/ FrameRenderCall
    \/ FrameRenderPixel
    \/ FrameRenderReturn

FrameSpec == FrameInit /\ [][FrameNext]_vars

\* C16: from the call on, the scene of render's config stays the scene it
\* was called with, whatever the caller does to its own, and every pixel is
\* rendered from it
RenderReadsOwnConfig ==
    fr_pc \in {"rendering", "returned"} =>
        /\ fr_config.scene = fr_at_call
        /\ \A i \in FramePixels : i <= fr_next => fr_read[i] = fr_at_call

\* a render has returned whose caller changed its scene before the last
\* pixel was rendered
RenderReadsOwnConfigWitness ==
    /\ fr_pc = "returned"
    /\ fr_caller_scene # fr_at_call
    /\ fr_caller_scene.camera # fr_at_call.camera
    /\ fr_read[2] = fr_at_call

\* ------------------------------------------------------------------------
\* LoadSpec: load_off, line by line
\* ------------------------------------------------------------------------
\* A line is the sequence of its whitespace-separated fields, all numeric
\* (get_line has skipped the blank lines and the comments).  The counts
\* line, when it has three fields, gives the numbers of vertex and face
\* lines the file has.
OffVertexLines == { <<-2, -2, 2>>, <<2, 4>> }
OffFaceLines == { <<3, 0, 1, 2>>, <<4, 0, 1, 2, 0>>, <<3, 0, 1>>, <<2, 0, 1, 2>> }
NoFile ==
    [exists |-> FALSE, scale |-> 1, header |-> "", counts |-> <<>>,
     vertices |-> <<>>, faces |-> <<>>]
OffFiles ==
    { [exists |-> TRUE, scale |-> scale, header |-> header, counts |-> counts,
       vertices |-> vertices, faces |-> <<face>>] :
          scale \in MeshScales, header \in {"OFF", "COFF"},
          counts \in { <<3, 1, 0>>, <<3, 1>>, <<3, 1, 0, 0>> },
          vertices \in [1..3 -> OffVertexLines], face \in OffFaceLines }

LoadInit ==
    /\ lo_file \in OffFiles \cup {NoFile}
    /\ lo_pc = "open"
    /\ lo_vertices = <<>>
    /\ lo_triangles = <<>>
    /\ lo_result = "pending"
    /\ RenderIdle
    /\ MockIdle
    /\ SceneIdle
    /\ MeshIdle
    /\ HitIdle
    /\ RadianceIdle
    /\ CameraIdle
    /\ FrameIdle
    /\ GammaIdle
    /\ LockIdle
    /\ BounceIdle
    /\ PixelIdle
    /\ OffIdle

\* File::open(path).unwrap(): the result of the call after the open
OpenOutcome(exists) == IF exists THEN "pending" ELSE "panic"

\* the call ends with this result
LoadEnds(result) ==
    /\ lo_pc' = "done"
    /\ lo_result' = result

LoadOpen ==
    /\ lo_pc = "open"
    /\ IF OpenOutcome(lo_file.exists) = "pending"
       THEN lo_pc' = "header" /\ UNCHANGED lo_result
       ELSE LoadEnds(OpenOutcome(lo_file.exists))
    /\ UNCHANGED <<lo_file, lo_vertices, lo_triangles>>
    /\ UNCHANGED notLoad

\* get_line()? != "OFF"
LoadHeader ==
    /\ lo_pc = "header"
    /\ IF lo_file.header # "OFF"
       THEN LoadEnds("Err")
       ELSE lo_pc' = "counts" /\ UNCHANGED lo_result
    /\ UNCHANGED <<lo_file, lo_vertices, lo_triangles>>
    /\ UNCHANGED notLoad

\* the element counts
LoadCounts ==
    /\ lo_pc = "counts"
    /\ IF Len(lo_file.counts) # 3
       THEN LoadEnds("Err")
       ELSE lo_pc' = "vertices" /\ UNCHANGED lo_result
    /\ UNCHANGED <<lo_file, lo_vertices, lo_triangles>>
    /\ UNCHANGED notLoad

\* one iteration of the vertex loop
LoadVertex ==
    /\ lo_pc = "vertices"
    /\ Len(lo_vertices) < lo_file.counts[1]
    /\ LET coords == lo_file.vertices[Len(lo_vertices) + 1]
       IN  IF Len(coords) # 3
           THEN LoadEnds("Err") /\ UNCHANGED lo_vertices
           ELSE /\ lo_vertices' =
                      Append(lo_vertices,
                             <<coords[1] * lo_file.scale, coords[2] * lo_file.scale,
                               coords[3] * lo_file.scale>>)
                /\ UNCHANGED <<lo_pc, lo_result>>
    /\ UNCHANGED <<lo_file, lo_triangles>>
    /\ UNCHANGED notLoad

\* the vertex loop is over: the bounding sphere is computed
LoadBoundingSphere ==
    /\ lo_pc = "vertices"
    /\ Len(lo_vertices) = lo_file.counts[1]
    /\ lo_pc' = "faces"
    /\ UNCHANGED <<lo_file, lo_vertices, lo_triangles, lo_result>>
    /\ UNCHANGED notLoad

\* one iteration of the face loop
LoadFace ==
    /\ lo_pc = "faces"
    /\ Len(lo_triangles) < lo_file.counts[2]
    /\ LET face_indices == lo_file.faces[Len(lo_triangles) + 1]
       IN  IF Len(face_indices) < 4 \/ face_indices[1] # 3
           THEN LoadEnds("Err") /\ UNCHANGED lo_triangles
           ELSE /\ lo_triangles' =
                      Append(lo_triangles,
                             Triangle(lo_vertices[face_indices[2] + 1],
                                      lo_vertices[face_indices[3] + 1],
                                      lo_vertices[face_indices[4] + 1]))
                /\ UNCHANGED <<lo_pc, lo_result>>
    /\ UNCHANGED <<lo_file, lo_vertices>>
    /\ UNCHANGED notLoad

\* return Ok(Mesh { triangles, bounding_sphere })
LoadReturn ==
    /\ lo_pc = "faces"
    /\ Len(lo_triangles) = lo_file.counts[2]
    /\ LoadEnds("Ok")
    /\ UNCHANGED <<lo_file, lo_vertices, lo_triangles>>
    /\ UNCHANGED notLoad

LoadNext ==
    \/ LoadOpen
    \/ LoadHeader
    \/ LoadCounts
    \/ LoadVertex
    \/ LoadBoundingSphere
    \/ LoadFace
    \/ LoadReturn

LoadSpec == LoadInit /\ [][LoadNext]_vars

\* the inputs of C17
MissingFile == ~lo_file.exists
BadHeader == lo_file.exists /\ lo_file.header # "OFF"
BadCounts == lo_file.exists /\ Len(lo_file.counts) # 3
BadVertexLine ==
    lo_file.exists /\ \E k \in DOMAIN lo_file.vertices : Len(lo_file.vertices[k]) # 3
BadFace ==
    lo_file.exists /\ \E f \in DOMAIN lo_file.faces : lo_file.faces[f][1] # 3

\* C17: load_off ends with an Err, no mesh and no abort, for a missing
\* file, a header other than OFF, a counts line without exactly three
\* fields, a vertex line without exactly three coordinates and a face whose
\* vertex count is not 3
BadOffInputIsErr ==
    (lo_pc = "done" /\ (MissingFile \/ BadHeader \/ BadCounts \/ BadVertexLine \/ BadFace))
        => lo_result = "Err"

\* the four inputs about the contents of the file
BadOffContentIsErr ==
    (lo_pc = "done" /\ (BadHeader \/ BadCounts \/ BadVertexLine \/ BadFace))
        => lo_result = "Err"

\* ------------------------------------------------------------------------
\* GammaSpec: gamma_correction and to_int_with_gamma_correction
\* ------------------------------------------------------------------------
\* The arguments are f32 values in FixedOne units.  Powers are computed in
\* a binary floating point of 15 mantissa bits, m * 2^e with
\* 2^14 <= m < 2^15, every product rounded towards zero.
MantissaBits == 15
FloatZero == [m |-> 0, e |-> 0]

RECURSIVE FloatNorm(_, _)
FloatNorm(m, e) ==
    IF m = 0 THEN FloatZero
    ELSE IF m >= 2 ^ MantissaBits THEN FloatNorm(m \div 2, e + 1)
    ELSE IF m < 2 ^ (MantissaBits - 1) THEN FloatNorm(m * 2, e - 1)
    ELSE [m |-> m, e |-> e]

\* a / b for 0 <= a < 2^15 and 0 < b
FloatRatio(a, b) ==
    IF a = 0 THEN FloatZero
    ELSE LET n == FloatNorm(a, 0)
         IN  FloatNorm((n.m * 2 ^ MantissaBits) \div b, n.e - MantissaBits)

FloatMul(a, b) ==
    IF a.m = 0 \/ b.m = 0 THEN FloatZero
    ELSE FloatNorm((a.m * b.m) \div 2 ^ (MantissaBits - 1),
                   a.e + b.e + MantissaBits - 1)

RECURSIVE FloatPow(_, _)
FloatPow(a, n) == IF n = 1 THEN a ELSE FloatMul(a, FloatPow(a, n - 1))

FloatLeq(a, b) ==
    IF a.m = 0 THEN TRUE
    ELSE IF b.m = 0 THEN FALSE
    ELSE a.e < b.e \/ (a.e = b.e /\ a.m <= b.m)

\* 1 / 2.2 is 5 / 11; the result of powf is kept in units of 1 / 510, the
\* grid on which 255.0 * g + 0.5 crosses the integers and the halves
GammaUnits == 2 * 255

\* the largest k in lo..hi with (k / 510)^11 <= c^5, by bisection
RECURSIVE PowfUnits(_, _, _)
PowfUnits(c, lo, hi) ==
    IF lo = hi THEN lo
    ELSE LET mid == (lo + hi + 1) \div 2
         IN  IF FloatLeq(FloatPow(FloatRatio(mid, GammaUnits), 11),
                         FloatPow(FloatRatio(c, FixedOne), 5))
             THEN PowfUnits(c, mid, hi)
             ELSE PowfUnits(c, lo, mid - 1)

\* x.clamp(0.0, 1.0).powf(1.0 / 2.2)
gamma_correction(x) ==
    LET c == Clamp01(x)
    IN  IF c.nan THEN NaN ELSE F32(PowfUnits(c.v, 0, GammaUnits))

TruncateOnly(g) == IF g.nan THEN 0 ELSE g.v \div 2

\* (255.0 * g + 0.5) as usize, g in units of 1 / 510: the cast truncates,
\* and NaN casts to 0
AddHalfAndCast(g) == IF g.nan THEN 0 ELSE (g.v + 1) \div 2

to_int_with_gamma_correction(x) == AddHalfAndCast(gamma_correction(x))

GammaInputs ==
    {NaN} \cup
    { F32(v) : v \in { -FixedOne, -1, 0, 1, 2, 64, FixedOne \div 8, FixedOne \div 2,
                       (3 * FixedOne) \div 4, FixedOne - 1, FixedOne, FixedOne + 1,
                       3 * FixedOne } }

NotCalled == [some |-> FALSE, v |-> 0]

GammaInit ==
    /\ gm_x \in [1..2 -> GammaInputs]
    /\ gm_out = [i \in 1..2 |-> NotCalled]
    /\ RenderIdle
    /\ MockIdle
    /\ SceneIdle
    /\ MeshIdle
    /\ HitIdle
    /\ RadianceIdle
    /\ CameraIdle
    /\ FrameIdle
    /\ LoadIdle
    /\ LockIdle
    /\ BounceIdle
    /\ PixelIdle
    /\ OffIdle

GammaCall ==
    /\ \E i \in 1..2 :
          /\ ~gm_out[i].some
          /\ gm_out' = [gm_out EXCEPT ![i] =
                           [some |-> TRUE, v |-> to_int_with_gamma_correction(gm_x[i])]]
    /\ UNCHANGED gm_x
    /\ UNCHANGED notGamma

GammaNext == GammaCall

GammaSpec == GammaInit /\ [][GammaNext]_vars

\* C18: the result is in 0..255, 0 for x <= 0, 255 for x >= 1, 186 at 0.5,
\* 224 at 0.75, and never decreases when x grows
GammaToIntInRangeAndMonotone ==
    /\ \A i \in 1..2 :
          gm_out[i].some =>
              /\ gm_out[i].v \in 0..255
              /\ (~gm_x[i].nan /\ gm_x[i].v <= 0) => gm_out[i].v = 0
              /\ (~gm_x[i].nan /\ gm_x[i].v >= FixedOne) => gm_out[i].v = 255
              /\ gm_x[i] = F32(FixedOne \div 2) => gm_out[i].v = 186
              /\ gm_x[i] = F32((3 * FixedOne) \div 4) => gm_out[i].v = 224
    /\ (gm_out[1].some /\ gm_out[2].some /\ ~gm_x[1].nan /\ ~gm_x[2].nan
            /\ gm_x[1].v <= gm_x[2].v)
          => gm_out[1].v <= gm_out[2].v

\* 0.5 and 0.75 have been converted
GammaToIntInRangeAndMonotoneWitness ==
    /\ gm_x[1] = F32(FixedOne \div 2)
    /\ gm_x[2] = F32((3 * FixedOne) \div 4)
    /\ gm_out[1].some /\ gm_out[2].some
    /\ gm_out[1].v < gm_out[2].v

\* ------------------------------------------------------------------------
\* LockSpec: the pixels mutex, the stores of the workers and the copies
\* ------------------------------------------------------------------------
\* Every worker stores one pixel, slot w for worker w; a Vec3 is stored one
\* channel after the other and the buffer is cloned one slot after the
\* other, the way the memory is written and read.
ByWorker(w) == [kind |-> "worker", id |-> w]
ByRender == [kind |-> "render", id |-> 0]

\* (mutant) a lock that is handed out while somebody holds it
MutexAlwaysAvailable(holder) == TRUE

\* Mutex::lock returns once nobody holds the mutex
MutexAvailable(holder) == holder = LockFree

\* the pixel_value a worker has rendered for its slot
PixelValueOf(w) == <<w, w + NumWorkers, w + 2 * NumWorkers>>
LockZero == <<0, 0, 0>>

LockInit ==
    /\ lk = [holder |-> LockFree,
             buf |-> [w \in Workers |-> LockZero],
             wpc |-> [w \in Workers |-> "render_pixel"],
             ppc |-> "lock", p_slot |-> 1, p_clone |-> <<>>,
             snapshot |-> <<>>,
             rpc |-> "for_each", final |-> <<>>]
    /\ RenderIdle
    /\ MockIdle
    /\ SceneIdle
    /\ MeshIdle
    /\ HitIdle
    /\ RadianceIdle
    /\ CameraIdle
    /\ FrameIdle
    /\ LoadIdle
    /\ GammaIdle
    /\ BounceIdle
    /\ PixelIdle
    /\ OffIdle

\* let pixel_value = render_pixel(..): done without the lock
LockWorkerRender(w) ==
    /\ lk.wpc[w] = "render_pixel"
    /\ lk' = [lk EXCEPT !.wpc[w] = "lock"]
    /\ UNCHANGED notLock

\* let mut pixels = pixels.lock().unwrap();
LockWorkerLock(w) ==
    /\ lk.wpc[w] = "lock"
    /\ MutexAvailable(lk.holder)
    /\ lk' = [lk EXCEPT !.holder = ByWorker(w), !.wpc[w] = "store_x"]
    /\ UNCHANGED notLock

\* pixels[pixel_index] = pixel_value, channel by channel
LockWorkerStore(w) ==
    /\ lk.wpc[w] \in {"store_x", "store_y", "store_z"}
    /\ LET c == CASE lk.wpc[w] = "store_x" -> 1
                  [] lk.wpc[w] = "store_y" -> 2
                  [] OTHER -> 3
           next == CASE lk.wpc[w] = "store_x" -> "store_y"
                     [] lk.wpc[w] = "store_y" -> "store_z"
                     [] OTHER -> "unlock"
       IN  lk' = [lk EXCEPT !.buf[w][c] = PixelValueOf(w)[c], !.wpc[w] = next]
    /\ UNCHANGED notLock

\* the guard is dropped at the end of the closure
LockWorkerUnlock(w) ==
    /\ lk.wpc[w] = "unlock"
    /\ lk' = [lk EXCEPT !.holder = LockFree, !.wpc[w] = "done"]
    /\ UNCHANGED notLock

\* get_pixels.lock().unwrap() of the progress task
LockProgressLock ==
    /\ lk.ppc = "lock"
    /\ lk.rpc # "returned"
    /\ MutexAvailable(lk.holder)
    /\ lk' = [lk EXCEPT !.holder = ByProgress, !.ppc = "clone", !.p_slot = 1,
                        !.p_clone = <<>>]
    /\ UNCHANGED notLock

\* .clone(): the next slot is copied
LockProgressCloneSlot ==
    /\ lk.ppc = "clone"
    /\ lk' = [lk EXCEPT !.p_clone = Append(@, lk.buf[lk.p_slot]),
                        !.p_slot = IF lk.p_slot = NumWorkers THEN 1 ELSE @ + 1,
                        !.ppc = IF lk.p_slot = NumWorkers THEN "send"
                                ELSE "clone"]
    /\ UNCHANGED notLock

\* the update with the copy is sent and the guard dropped
LockProgressSend ==
    /\ lk.ppc = "send"
    /\ lk' = [lk EXCEPT !.holder = LockFree, !.snapshot = lk.p_clone,
                        !.p_clone = <<>>, !.ppc = "lock"]
    /\ UNCHANGED notLock

\* for_each has returned; let pixels = pixels.lock().unwrap().to_vec();
LockRenderLock ==
    /\ lk.rpc = "for_each"
    /\ \A w \in Workers : lk.wpc[w] = "done"
    /\ MutexAvailable(lk.holder)
    /\ lk' = [lk EXCEPT !.holder = ByRender, !.rpc = "to_vec"]
    /\ UNCHANGED notLock

\* the copy for the final image; the temporary guard is dropped
LockRenderCopy ==
    /\ lk.rpc = "to_vec"
    /\ lk' = [lk EXCEPT !.final = [i \in 1..NumWorkers |-> lk.buf[i]],
                        !.holder = LockFree, !.rpc = "returned"]
    /\ UNCHANGED notLock

LockNext ==
    \/ \E w \in Workers : LockWorkerRender(w)
    \/ \E w \in Workers : LockWorkerLock(w)
    \/ \E w \in Workers : LockWorkerStore(w)
    \/ \E w \in Workers : LockWorkerUnlock(w)
    \/ LockProgressLock
    \/ LockProgressCloneSlot
    \/ LockProgressSend
    \/ LockRenderLock
    \/ LockRenderCopy

LockSpec == LockInit /\ [][LockNext]_vars

\* worker w is between taking the lock and dropping the guard
Storing(w) == lk.wpc[w] \in {"store_x", "store_y", "store_z", "unlock"}

\* every slot of a copy is zero or the whole value of its pixel
WholeSlots(copy) ==
    \A i \in DOMAIN copy : copy[i] = LockZero \/ copy[i] = PixelValueOf(i)

\* C21: stores and copies of the buffer exclude each other: two workers
\* never store at the same time, no worker stores while the progress task
\* clones, and every slot of a progress snapshot and of the final image is
\* the zero vector or the complete value of its pixel.
WritesAndSnapshotsExclusive ==
    /\ \A v, w \in Workers : (Storing(v) /\ Storing(w)) => v = w
    /\ lk.ppc \in {"clone", "send"} => \A w \in Workers : ~Storing(w)
    /\ WholeSlots(lk.p_clone)
    /\ WholeSlots(lk.snapshot)
    /\ WholeSlots(lk.final)

\* a sent snapshot with one pixel stored and one slot still zero, while the
\* other worker is in the middle of its store; and a final image
WritesAndSnapshotsExclusiveWitness ==
    /\ lk.snapshot # <<>>
    /\ \E i, j \in DOMAIN lk.snapshot :
          /\ lk.snapshot[i] = PixelValueOf(i)
          /\ lk.snapshot[j] = LockZero
          /\ lk.wpc[j] = "store_y"

\* ------------------------------------------------------------------------
\* BounceSpec: the body of one radiance call
\* ------------------------------------------------------------------------
\* Colours, cosines, Fresnel terms and rand01 values are in thousandths
\* (ColorOne is 1.0).  The draws of the call are taken in order from the
\* sequence `draws`.

\* (mutant) the roulette tested on the depth argument
RouletteOnDepthArgument(new_depth) == new_depth - 1 > RouletteDepth

\* if new_depth > 5
RouletteApplies(new_depth) == new_depth > RouletteDepth

\* (mutant) a draw equal to max_reflection survives
SurvivesOnEqual(draw, max_reflection, new_depth) ==
    draw <= max_reflection /\ new_depth < MAX_DEPTH

\* rand01() < max_reflection && new_depth < MAX_DEPTH
Survives(draw, max_reflection, new_depth) ==
    draw < max_reflection /\ new_depth < MAX_DEPTH

\* depth up to which both rays of a dielectric are followed
BothRaysDepth == 2

\* (mutant) the split tested on the depth argument
OneRayOnDepthArgument(new_depth) == new_depth - 1 > BothRaysDepth

\* if new_depth > 2
OneRay(new_depth) == new_depth > BothRaysDepth

\* color.x.max(color.y.max(color.z))
max_reflection(color) ==
    LET yz == IF color[2] > color[3] THEN color[2] ELSE color[3]
    IN  IF color[1] > yz THEN color[1] ELSE yz

\* f32::sqrt of a value in millionths, in thousandths
RECURSIVE SqrtBetween(_, _, _)
SqrtBetween(n, lo, hi) ==
    IF lo = hi THEN lo
    ELSE LET mid == (lo + hi + 1) \div 2
         IN  IF mid * mid <= n THEN SqrtBetween(n, mid, hi)
             ELSE SqrtBetween(n, lo, mid - 1)

\* cos2t = 1 - nnt^2 * (1 - ddn^2), in millionths; nnt is nc / nt = 2/3
\* for a ray going in and nt / nc = 3/2 for a ray going out
cos2t(into, ddn) ==
    LET sin2 == ColorOne * ColorOne - ddn * ddn
    IN  ColorOne * ColorOne
          - (IF into THEN (4 * sin2) \div 9 ELSE (9 * sin2) \div 4)

\* c = 1 - (if into { -ddn } else { tdir.dot(hit.normal) }); for a ray
\* going out tdir.dot(hit.normal) is sqrt(cos2t), the cosine of the
\* refracted ray
FresnelC(into, ddn) ==
    IF into THEN ColorOne + ddn
    ELSE ColorOne - SqrtBetween(cos2t(into, ddn), 0, ColorOne)

\* r0 = a * a / (b * b) with a = nt - nc = 0.5 and b = nt + nc = 2.5
FresnelR0 == 40

\* re = r0 + (1 - r0) * c^5
FresnelRe(c) ==
    LET c2 == (c * c) \div ColorOne
        c4 == (c2 * c2) \div ColorOne
        c5 == (c4 * c) \div ColorOne
    IN  FresnelR0 + ((ColorOne - FresnelR0) * c5) \div ColorOne

\* p = 0.25 + 0.5 * re
FresnelP(re) == 250 + re \div 2

NoCalls == <<>>
RadianceCall(ray, new_depth, weight) ==
    [ray |-> ray, depth |-> new_depth, weight |-> weight]

\* what the call returns and does: the draws it took, whether the roulette
\* drew and whether it rescaled color (and by what), and the recursive calls
\* it made with the weight of each
radiance_body(depth, hit, color, reflect_type, into, ddn, draws) ==
    IF ~hit
    THEN [result |-> "default", roulette |-> FALSE, rescaled_by |-> -1,
          draws_used |-> 0, tir |-> FALSE, re |-> 0, calls |-> NoCalls]
    ELSE
      LET new_depth == depth + 1
          max_refl == max_reflection(color)
          roulette == RouletteApplies(new_depth)
          survives == Survives(draws[1], max_refl, new_depth)
          n1 == IF roulette THEN 1 ELSE 0
      IN  IF roulette /\ ~survives
          THEN [result |-> "emmission", roulette |-> TRUE, rescaled_by |-> -1,
                draws_used |-> 1, tir |-> FALSE, re |-> 0, calls |-> NoCalls]
          ELSE
            LET rescaled_by == IF roulette THEN max_refl ELSE -1
                tir == cos2t(into, ddn) < 0
                re == FresnelRe(FresnelC(into, ddn))
                tr == ColorOne - re
                p == FresnelP(re)
                refl == RadianceCall("reflect", new_depth, re)
                refr == RadianceCall("refract", new_depth, tr)
            IN  CASE reflect_type = "Diffuse" ->
                       [result |-> "brdf", roulette |-> roulette,
                        rescaled_by |-> rescaled_by, draws_used |-> n1 + 2,
                        tir |-> FALSE, re |-> 0,
                        calls |-> <<RadianceCall("diffuse", new_depth, ColorOne)>>]
                  [] reflect_type = "Specular" ->
                       [result |-> "brdf", roulette |-> roulette,
                        rescaled_by |-> rescaled_by, draws_used |-> n1,
                        tir |-> FALSE, re |-> 0,
                        calls |-> <<RadianceCall("reflect", new_depth, ColorOne)>>]
                  [] OTHER ->
                       IF tir
                       THEN [result |-> "brdf", roulette |-> roulette,
                             rescaled_by |-> rescaled_by, draws_used |-> n1,
                             tir |-> TRUE, re |-> 0,
                             calls |-> <<RadianceCall("reflect", new_depth,
                                                      ColorOne)>>]
                       ELSE IF OneRay(new_depth)
                       THEN [result |-> "brdf", roulette |-> roulette,
                             rescaled_by |-> rescaled_by,
                             draws_used |-> n1 + 1, tir |-> FALSE, re |-> re,
                             calls |->
                               IF draws[n1 + 1] < p
                               THEN <<RadianceCall("reflect", new_depth,
                                                   (re * ColorOne) \div p)>>
                               ELSE <<RadianceCall("refract", new_depth,
                                                   (tr * ColorOne)
                                                     \div (ColorOne - p))>>]
                       ELSE [result |-> "brdf", roulette |-> roulette,
                             rescaled_by |-> rescaled_by, draws_used |-> n1,
                             tir |-> FALSE, re |-> re,
                             calls |-> <<refl, refr>>]

BounceColors == {<<0, 0, 0>>, <<500, 250, 0>>, <<750, 750, 750>>,
                 <<999, 999, 999>>}
BounceCosines == {-1000, -800, -600, -100}
BounceDraws == {0, 300, 999}
NotRun == [result |-> "none"]

BounceInit ==
    /\ bounce \in [depth : 0..(MAX_DEPTH - 1), hit : BOOLEAN,
                   color : BounceColors, reflect_type : ReflectTypes,
                   into : BOOLEAN, ddn : BounceCosines,
                   draws : [1..2 -> BounceDraws], out : {NotRun}]
    /\ RenderIdle
    /\ MockIdle
    /\ SceneIdle
    /\ MeshIdle
    /\ HitIdle
    /\ RadianceIdle
    /\ CameraIdle
    /\ FrameIdle
    /\ LoadIdle
    /\ GammaIdle
    /\ LockIdle
    /\ PixelIdle
    /\ OffIdle

\* the call runs
BounceRun ==
    /\ bounce.out = NotRun
    /\ bounce' = [bounce EXCEPT !.out =
                     radiance_body(bounce.depth, bounce.hit, bounce.color,
                                   bounce.reflect_type, bounce.into,
                                   bounce.ddn, bounce.draws)]
    /\ UNCHANGED notBounce

BounceNext == BounceRun

BounceSpec == BounceInit /\ [][BounceNext]_vars

\* the call has run and hit an object
BounceHit == bounce.out # NotRun /\ bounce.hit

\* the call went on to the BRDF term with color divided by max_reflection
ContinuedRescaled ==
    /\ bounce.out.result = "brdf"
    /\ bounce.out.rescaled_by = max_reflection(bounce.color)
    /\ Len(bounce.out.calls) >= 1

\* the call went on to the BRDF term without a roulette draw and with color
\* as it is
ContinuedPlain ==
    /\ ~bounce.out.roulette
    /\ bounce.out.result = "brdf"
    /\ bounce.out.rescaled_by = -1
    /\ Len(bounce.out.calls) >= 1

\* C23 (as claimed): the roulette applies exactly to calls whose depth
\* argument is greater than 5: a call with depth <= 5 that hits draws no
\* roulette number and evaluates the BRDF term, a call with depth > 5 returns
\* the emission alone or continues with the rescaled color.
RouletteAboveDepthFive ==
    BounceHit =>
        /\ bounce.depth <= RouletteDepth => ContinuedPlain
        /\ bounce.depth > RouletteDepth =>
              /\ bounce.out.roulette
              /\ bounce.out.result = "emmission" \/ ContinuedRescaled

\* C23 (amended): the roulette applies exactly to calls whose depth argument
\* plus one is greater than 5, that is to a depth argument of 5 and more: a
\* call with depth <= 4 that hits draws no roulette number and evaluates the
\* BRDF term, a call with depth >= 5 draws one and returns the emission
\* alone or continues with the rescaled color.
RouletteAboveNewDepthFive ==
    BounceHit =>
        /\ bounce.depth + 1 <= RouletteDepth => ContinuedPlain
        /\ bounce.depth + 1 > RouletteDepth =>
              /\ bounce.out.roulette
              /\ bounce.out.draws_used >= 1
              /\ bounce.out.result = "emmission" \/ ContinuedRescaled

\* a call with depth argument 5 that drew for the roulette, survived and
\* went on with the rescaled color
RouletteAboveNewDepthFiveWitness ==
    /\ BounceHit
    /\ bounce.depth = RouletteDepth
    /\ bounce.out.roulette
    /\ ContinuedRescaled

\* the call hit a dielectric
RefractHit == BounceHit /\ bounce.reflect_type = "Refract"

\* total internal reflection at the hit
BounceTir == cos2t(bounce.into, bounce.ddn) < 0

\* re of the hit
BounceRe == FresnelRe(FresnelC(bounce.into, bounce.ddn))

\* two recursive calls: the reflection weighted by Re, the refraction by Tr
TwoCallsWeighted ==
    /\ Len(bounce.out.calls) = 2
    /\ bounce.out.calls[1] =
          RadianceCall("reflect", bounce.depth + 1, BounceRe)
    /\ bounce.out.calls[2] =
          RadianceCall("refract", bounce.depth + 1, ColorOne - BounceRe)

\* one recursive call: the reflection when the draw after the roulette is
\* below p = 0.25 + 0.5 * Re, the refraction otherwise
OneCallChosen ==
    LET p == 250 + BounceRe \div 2
        draw == bounce.draws[bounce.out.draws_used]
    IN  /\ Len(bounce.out.calls) = 1
        /\ bounce.out.calls[1].depth = bounce.depth + 1
        /\ bounce.out.calls[1].ray = IF draw < p THEN "reflect" ELSE "refract"

\* one recursive call, the reflection
OneCallReflected ==
    /\ Len(bounce.out.calls) = 1
    /\ bounce.out.calls[1].ray = "reflect"
    /\ bounce.out.calls[1].depth = bounce.depth + 1

\* C24 (as claimed): on a dielectric without total internal reflection a call
\* with depth <= 2 makes exactly two recursive calls, weighted by Re and Tr,
\* and a call with depth > 2 exactly one, the reflection with probability
\* p = 0.25 + 0.5 * Re and the refraction otherwise; with total internal
\* reflection exactly one call, the reflection, is made.
RefractCallsByDepthTwo ==
    RefractHit =>
        /\ (~BounceTir /\ bounce.depth <= BothRaysDepth) => TwoCallsWeighted
        /\ (~BounceTir /\ bounce.depth > BothRaysDepth) => OneCallChosen
        /\ BounceTir => OneCallReflected

\* C24 (amended): on a dielectric, in a call that the roulette does not end,
\* without total internal reflection a call with depth <= 1 (depth + 1 <= 2)
\* makes exactly two recursive calls, weighted by Re and Tr, and a call with
\* depth >= 2 exactly one, the reflection when the draw is below
\* p = 0.25 + 0.5 * Re and the refraction otherwise; with total internal
\* reflection exactly one call, the reflection.  A call that the roulette
\* ends makes no recursive call.
RefractCallsByNewDepthTwo ==
    RefractHit =>
        IF bounce.out.result = "emmission"
        THEN bounce.out.calls = NoCalls /\ bounce.depth + 1 > RouletteDepth
        ELSE /\ (~BounceTir /\ bounce.depth + 1 <= BothRaysDepth) =>
                   TwoCallsWeighted
             /\ (~BounceTir /\ bounce.depth + 1 > BothRaysDepth) =>
                   OneCallChosen
             /\ BounceTir => OneCallReflected

\* a call with depth argument 2 on a dielectric, without total internal
\* reflection, that followed the refracted ray alone
RefractCallsByNewDepthTwoWitness ==
    /\ RefractHit
    /\ ~BounceTir
    /\ bounce.depth = BothRaysDepth
    /\ Len(bounce.out.calls) = 1
    /\ bounce.out.calls[1].ray = "refract"

\* C30: color is divided by max_reflection only when max_reflection > 0: a
\* call past the roulette threshold that hits an object of color (0,0,0)
\* returns the object's emission whatever the draw, without rescaling and
\* without a recursive call.
RescaleOnlyByPositive ==
    BounceHit =>
        /\ bounce.out.rescaled_by # -1 => bounce.out.rescaled_by > 0
        /\ (bounce.depth + 1 > RouletteDepth
              /\ max_reflection(bounce.color) = 0) =>
              /\ bounce.out.result = "emmission"
              /\ bounce.out.rescaled_by = -1
              /\ bounce.out.calls = NoCalls

\* a call at depth 5 on a black object whose roulette draw was 0.0, the
\* smallest value of rand01, and that returned the emission
RescaleOnlyByPositiveWitness ==
    /\ BounceHit
    /\ bounce.depth = RouletteDepth
    /\ bounce.color = <<0, 0, 0>>
    /\ bounce.draws[1] = 0
    /\ bounce.out.roulette
    /\ bounce.out.result = "emmission"

\* ------------------------------------------------------------------------
\* PixelSpec: the pixel coordinates render_pixel takes from an index
\* ------------------------------------------------------------------------
MaxPixelWidth == 4
MaxPixelHeight == 4

\* usize subtraction: a result below zero does not exist (the debug build
\* panics, the release build wraps around to a huge value); Underflow stands
\* for either
Underflow == -1
usize_sub(a, b) == IF a = Underflow \/ a < b THEN Underflow ELSE a - b

\* (mutant) the row taken with the height as divisor
PixelRowByHeight(pixel_index, width, height) == pixel_index \div height

\* pixel_index / res.width
PixelRow(pixel_index, width, height) == pixel_index \div width

\* let y = res.height - 1 - pixel_index / res.width;
\* let x = pixel_index % res.width;
PixelCoordinates(pixel_index, width, height) ==
    [x |-> pixel_index % width,
     y |-> usize_sub(usize_sub(height, 1), PixelRow(pixel_index, width, height))]

PixelInit ==
    /\ pix \in [width : 0..MaxPixelWidth, height : 0..MaxPixelHeight,
               next : {0}, coords : {<<>>}]
    /\ RenderIdle
    /\ MockIdle
    /\ SceneIdle
    /\ MeshIdle
    /\ HitIdle
    /\ RadianceIdle
    /\ CameraIdle
    /\ FrameIdle
    /\ LoadIdle
    /\ GammaIdle
    /\ LockIdle
    /\ BounceIdle
    /\ OffIdle

\* render_pixel is called for the next index of 0..grid_size
PixelMap ==
    /\ pix.next < pix.width * pix.height
    /\ pix' = [pix EXCEPT !.next = @ + 1,
                        !.coords = Append(@, PixelCoordinates(pix.next, pix.width,
                                                              pix.height))]
    /\ UNCHANGED notPixel

PixelNext == PixelMap

PixelSpec == PixelInit /\ [][PixelNext]_vars

\* C25: for every index of 0..width*height-1, x = i mod width and
\* y = height - 1 - (i div width) lie in 0..width-1 and 0..height-1, the
\* subtraction does not underflow, no two indices get the same (x, y) and,
\* once every index is mapped, every pixel of the grid has been reached.
IndexToPixelBijective ==
    /\ \A k \in DOMAIN pix.coords :
          /\ pix.coords[k].x = (k - 1) % pix.width
          /\ pix.coords[k].y = pix.height - 1 - ((k - 1) \div pix.width)
          /\ pix.coords[k].x \in 0..(pix.width - 1)
          /\ pix.coords[k].y \in 0..(pix.height - 1)
    /\ \A k, l \in DOMAIN pix.coords : pix.coords[k] = pix.coords[l] => k = l
    /\ pix.next = pix.width * pix.height =>
          {pix.coords[k] : k \in DOMAIN pix.coords}
              = [x : 0..(pix.width - 1), y : 0..(pix.height - 1)]

\* every index of a grid that is wider than high has been mapped, the first
\* one to the top row
IndexToPixelBijectiveWitness ==
    /\ pix.width > pix.height
    /\ pix.height > 1
    /\ pix.next = pix.width * pix.height
    /\ pix.coords[1] = [x |-> 0, y |-> pix.height - 1]
    /\ pix.coords[pix.next] = [x |-> pix.width - 1, y |-> 0]

\* ------------------------------------------------------------------------
\* OffSpec: load_off and its get_line on a file of any length
\* ------------------------------------------------------------------------
MaxLines == 4

\* a line after trim(): blank, a comment, a word, or numeric fields
BlankLine == [kind |-> "blank", fields |-> <<>>]
CommentLine == [kind |-> "comment", fields |-> <<>>]
OffWord == [kind |-> "word", fields |-> <<0>>]
Numbers(fields) == [kind |-> "numbers", fields |-> fields]
OffLines == {BlankLine, CommentLine, OffWord, Numbers(<<1, 1, 0>>),
             Numbers(<<0, 0, 0>>), Numbers(<<3, 0, 0, 0>>)}

\* the files: every sequence of at most MaxLines lines
OffTexts == UNION { [1..n -> OffLines] : n \in 0..MaxLines }

\* get_line has not returned a line yet
NoLine == [kind |-> "none", fields |-> <<>>]

\* while line.len() <= 0 || line.starts_with("#")
SkippedByGetLine(line) == line.kind \in {"blank", "comment"}

\* load_off is at a get_line()? call
AtGetLine ==
    \/ off.pc \in {"header", "counts"}
    \/ off.pc = "vertices" /\ off.vertices_left > 0
    \/ off.pc = "faces" /\ off.faces_left > 0

OffInit ==
    /\ off \in [lines : OffTexts, pos : {1}, pc : {"header"}, line : {NoLine},
                vertex_count : {0}, vertices_left : {0}, faces_left : {0},
                result : {"pending"}, eof_reads : {0}]
    /\ RenderIdle
    /\ MockIdle
    /\ SceneIdle
    /\ MeshIdle
    /\ HitIdle
    /\ RadianceIdle
    /\ CameraIdle
    /\ FrameIdle
    /\ LoadIdle
    /\ GammaIdle
    /\ LockIdle
    /\ BounceIdle
    /\ PixelIdle

\* one turn of the loop of get_line: line.clear(); reader.read_line(&mut
\* line)?; line = line.trim().to_owned().  At the end of the file read_line
\* returns Ok(0) and leaves the line empty, so the loop goes round again;
\* eof_reads is the parity of the number of such reads.
OffReadLine ==
    /\ AtGetLine
    /\ off.line = NoLine
    /\ IF off.pos > Len(off.lines)
       THEN off' = [off EXCEPT !.eof_reads = 1 - @]
       ELSE off' = [off EXCEPT !.pos = @ + 1,
                               !.line = IF SkippedByGetLine(off.lines[off.pos])
                                        THEN NoLine
                                        ELSE off.lines[off.pos]]
    /\ UNCHANGED notOff

OffEnds(result) == [off EXCEPT !.pc = "done", !.result = result, !.line = NoLine]

\* if get_line()? != "OFF" { return bad_data(..) }
OffHeader ==
    /\ off.pc = "header"
    /\ off.line # NoLine
    /\ off' = IF off.line = OffWord
              THEN [off EXCEPT !.pc = "counts", !.line = NoLine]
              ELSE OffEnds("Err")
    /\ UNCHANGED notOff

\* the counts line: three fields, else bad_data
OffCounts ==
    /\ off.pc = "counts"
    /\ off.line # NoLine
    /\ off' = IF Len(off.line.fields) # 3
              THEN OffEnds("Err")
              ELSE [off EXCEPT !.pc = "vertices", !.line = NoLine,
                               !.vertex_count = off.line.fields[1],
                               !.vertices_left = off.line.fields[1],
                               !.faces_left = off.line.fields[2]]
    /\ UNCHANGED notOff

\* one turn of the vertex loop: three fields, else bad_data
OffVertex ==
    /\ off.pc = "vertices"
    /\ off.vertices_left > 0
    /\ off.line # NoLine
    /\ off' = IF Len(off.line.fields) # 3
              THEN OffEnds("Err")
              ELSE [off EXCEPT !.vertices_left = @ - 1, !.line = NoLine]
    /\ UNCHANGED notOff

\* the bounding sphere: without a vertex min_vert and max_vert are still
\* infinite, the lengths are NaN and partial_cmp(..).unwrap() panics
OffBoundingSphere ==
    /\ off.pc = "vertices"
    /\ off.vertices_left = 0
    /\ off' = IF off.vertex_count = 0
              THEN OffEnds("panic")
              ELSE [off EXCEPT !.pc = "faces"]
    /\ UNCHANGED notOff

\* one turn of the face loop: at least four fields and a count of 3, else
\* bad_data; vertices[a] panics for an index that is no vertex
OffFace ==
    /\ off.pc = "faces"
    /\ off.faces_left > 0
    /\ off.line # NoLine
    /\ off' = IF Len(off.line.fields) < 4 \/ off.line.fields[1] # 3
              THEN OffEnds("Err")
              ELSE IF \E k \in 2..4 : off.line.fields[k] >= off.vertex_count
              THEN OffEnds("panic")
              ELSE [off EXCEPT !.faces_left = @ - 1, !.line = NoLine]
    /\ UNCHANGED notOff

\* return Ok(Mesh { .. })
OffReturn ==
    /\ off.pc = "faces"
    /\ off.faces_left = 0
    /\ off' = OffEnds("Ok")
    /\ UNCHANGED notOff

OffNext ==
    \/ OffReadLine
    \/ OffHeader
    \/ OffCounts
    \/ OffVertex
    \/ OffBoundingSphere
    \/ OffFace
    \/ OffReturn

OffSpec == OffInit /\ [][OffNext]_vars

\* the thread that called load_off keeps running
OffFairSpec == OffSpec /\ WF_vars(OffNext)

\* C28 (as claimed): load_off terminates on every finite file, also on one
\* that ends before the header, the counts line or the declared vertex and
\* face lines have been read: the call ends, with a mesh or an error.
LoadOffTerminates == <>(off.pc = "done")

====
